---- MODULE Spec2Model ----
(***************************************************************************)
(* Master/worker chunked file transfer over MPI.                           *)
(*                                                                         *)
(* Two implementations of the same protocol are modelled side by side:     *)
(*   impl = "ft" : MPI File transfer/file_transfer.py (MPIFileTransfer)    *)
(*   impl = "sv" : MPI File transfer/server.py  (MPIFileTransferServer)    *)
(*                 with MPI File transfer/client.py (MPIFileTransferClient)*)
(* Rank 0 is the master (Coordinator), rank 1 the client (Sender).  The    *)
(* ranks 2..size-1 run worker_process when they are launched as servers    *)
(* (server.py, or file_transfer.py --server): started = TRUE.  main() of   *)
(* file_transfer.py started by one mpiexec command line in file-sending    *)
(* mode leaves them without anything to run: started = FALSE.  A run       *)
(* performs the one operation the client was started for (send a file,     *)
(* list, shutdown), as main() does; the master then waits for a request    *)
(* that never comes.                                                       *)
(*                                                                         *)
(* Transport: comm.send is a standard-mode MPI send, modelled as buffered: *)
(* the message is put in flight (net) and the sender goes on; comm.recv    *)
(* blocks until a message matching (source, tag) addressed to the receiver *)
(* is in flight.  Both programs pass a wildcard where MPI wants a concrete *)
(* value (dest=MPI.ANY_SOURCE, tag=MPI.ANY_TAG on a send).  What such a    *)
(* send does is not defined by the program; the outcomes are kept:         *)
(*   lenient = FALSE : the library validates the arguments, rejects the    *)
(*                     call, and the caller raises;                        *)
(*   lenient = TRUE  : the library does not validate; each such call       *)
(*                     either fails (the caller raises) or delivers the    *)
(*                     message by tag alone to whichever endpoint posts a  *)
(*                     matching receive.                                   *)
(* MPI lets a standard-mode send either buffer the message or wait for the *)
(* matching receive; the second outcome is kept for the shutdown notices   *)
(* (sync = TRUE).                                                          *)
(*                                                                         *)
(* The two other pairs of the repository have their own specifications     *)
(* over the same variables: RpcSpec (RPC File transfer/server.py and       *)
(* client.py: an XML-RPC server that serves one call at a time and the     *)
(* clients that upload to it) and TcpSpec (TCP File transfer/server.py and *)
(* client.py: one connection as two byte streams).                         *)
(***************************************************************************)
EXTENDS Integers, Sequences, FiniteSets, TLC

VARIABLES
    impl,      \* which program runs: "ft" or "sv"
    size,      \* comm.Get_size()
    op,        \* what the client was asked to do: "send", "list", "shutdown"
    lenient,   \* FALSE when the MPI library validates the arguments of a send
    file,      \* the source file: a sequence of bytes
    net,       \* messages in flight
    log,       \* every message ever sent (history)
    fs,        \* the upload directory: path -> content, for the paths that exist
    master,    \* local state of rank 0
    worker,    \* local state of ranks 2..size-1
    client,    \* local state of rank 1 (call: dest and tag of its last comm.send)
    started,   \* TRUE when the ranks 2..size-1 run worker_process
    sync,      \* TRUE when the shutdown notices are sent synchronously (rendezvous)
    now,       \* the wall clock, in whole seconds: datetime.now() as strftime prints it
    saved,     \* the transfers a master has stored so far, in order
    active_transfers,  \* the RPC server's dictionary: transfer_id -> session
    rpc,       \* the RPC clients: client -> local state of its send_file
    tcp        \* the TCP pair: client, server and the two directions of the connection

vars == <<impl, size, op, lenient, file, net, log, fs, master, worker, client,
          started, sync, now, saved, active_transfers, rpc, tcp>>

(* ------------------------------ bounds -------------------------------- *)
\* the largest communicator, the longest source file (bytes), and the chunk size:
\* self.chunk_size is 65536 in the programs; the model keeps the chunking and
\* scales the number down so that files of a few bytes span several chunks
MaxSize == 5
MaxFileSize == 9
chunk_size == 2

(* --------------------------- MPI constants ---------------------------- *)
ANY_SOURCE == -1
ANY_TAG == -1
MASTER == 0
CLIENT == 1

Min(a, b) == IF a < b THEN a ELSE b

(* --------------------------- source files ----------------------------- *)
Ramp(n) == [k \in 1..n |-> k]
Flat(n) == [k \in 1..n |-> 0]
SourceFiles == {Ramp(n) : n \in 0..MaxFileSize} \cup {Flat(n) : n \in 0..MaxFileSize}

\* f.read(self.chunk_size) until it returns b'': the list of chunks of a file.
RECURSIVE read_chunks(_)
read_chunks(bytes) ==
    IF bytes = <<>> THEN <<>>
    ELSE LET n == Min(chunk_size, Len(bytes))
         IN  <<SubSeq(bytes, 1, n)>> \o read_chunks(SubSeq(bytes, n + 1, Len(bytes)))

RECURSIVE Concat(_)
Concat(seqs) == IF seqs = <<>> THEN <<>> ELSE Head(seqs) \o Concat(Tail(seqs))

(* ------------------------------ paths --------------------------------- *)
\* timestamp = datetime.now().strftime("%Y%m%d_%H%M%S");
\* os.path.join(upload_dir, f"received_{timestamp}_{filename}")
save_path(timestamp, filename) == [name |-> filename, ts |-> timestamp, part |-> 0]
\* a slip: one part file for every worker, f"{filepath}.part"
part_path_shared(filepath, rank) == [filepath EXCEPT !.part = 2]
\* f"{filepath}.part{worker}"
part_path(filepath, rank) == [filepath EXCEPT !.part = rank]
NoPath == [name |-> "", ts |-> 0, part |-> 0]
FileName == "data.bin"

\* open(path, 'wb'): creates the file, or truncates it
open_wb(dir, path) == [p \in DOMAIN dir \cup {path} |-> IF p = path THEN <<>> ELSE dir[p]]
\* f.write(data) on a handle opened for writing: appends at the end
write(dir, path, data) == [dir EXCEPT ![path] = @ \o data]
\* the part file left behind
remove_forgotten(dir, path) == dir
\* os.remove(path)
remove(dir, path) == [p \in DOMAIN dir \ {path} |-> dir[p]]

(* ----------------------------- transport ------------------------------ *)
Msg(src, dst, tag, body) == [src |-> src, dst |-> dst, tag |-> tag, body |-> body]

\* the arguments of a comm.send(obj, dest=dest, tag=tag) call
Call(dest, tag) == [dest |-> dest, tag |-> tag]

\* comm.recv(source=source, tag=tag) posted by rank me can take message m
Matches(m, me, source, tag) ==
    /\ m.dst = me \/ m.dst = ANY_SOURCE
    /\ source = ANY_SOURCE \/ m.src = source
    /\ tag = ANY_TAG \/ m.tag = tag

\* a send MPI accepts: a concrete destination rank and a concrete tag
ValidSend(m) == m.dst /= ANY_SOURCE /\ m.tag /= ANY_TAG
\* what one comm.send call can do: a valid send goes through (TRUE); a send
\* with a wildcard is rejected (FALSE) by a transport that validates its
\* arguments, and on one that does not each call has either outcome
Outcomes(m) == IF ValidSend(m) THEN {TRUE} ELSE IF lenient THEN BOOLEAN ELSE {FALSE}

\* the master's previous comm.send on this tag has returned: at once when the send is
\* buffered; when it is synchronous, once the addressed rank has received the message
SendReturned(tag) == sync => \A m \in net : ~(m.src = MASTER /\ m.tag = tag)

(* ------------------------- chunk partitioning ------------------------- *)
\* a slip in the remainder test: "i <= remainder"
ft_count_off_by_one(num_chunks, num_workers, i) ==
    (num_chunks \div num_workers) + (IF i <= num_chunks % num_workers THEN 1 ELSE 0)

\* coordinate_parallel_transfer: count = chunks_per_worker + (1 if i < remainder else 0)
ft_count(num_chunks, num_workers, i) ==
    (num_chunks \div num_workers) + (IF i < num_chunks % num_workers THEN 1 ELSE 0)

\* the extra chunks given to the last workers instead of the first
sv_count_last_first(num_chunks, num_workers, i) ==
    (num_chunks \div num_workers)
        + (IF i >= num_workers - (num_chunks % num_workers) THEN 1 ELSE 0)

\* master_process: end_chunk - start_chunk = chunks_per_worker + (1 if i < remainder else 0)
sv_count(num_chunks, num_workers, i) ==
    (num_chunks \div num_workers) + (IF i < num_chunks % num_workers THEN 1 ELSE 0)

\* [i for i in range(1, self.size) if i != source], ascending
RECURSIVE range_except(_, _, _)
range_except(lo, hi, source) ==
    IF lo >= hi THEN <<>>
    ELSE (IF lo /= source THEN <<lo>> ELSE <<>>) \o range_except(lo + 1, hi, source)

\* sorted(assignments, key=lambda x: x[1]): stable insertion by start
RECURSIVE insert_by_start(_, _)
insert_by_start(sorted, a) ==
    IF sorted = <<>> THEN <<a>>
    ELSE IF a.start < Head(sorted).start THEN <<a>> \o sorted
    ELSE <<Head(sorted)>> \o insert_by_start(Tail(sorted), a)

RECURSIVE sorted_by_start(_)
sorted_by_start(assignments) ==
    IF assignments = <<>> THEN <<>>
    ELSE insert_by_start(sorted_by_start(SubSeq(assignments, 1, Len(assignments) - 1)),
                         assignments[Len(assignments)])

(* --------------------------- initial state ---------------------------- *)
MasterInit ==
    [pc |-> "wait", source |-> 0, filename |-> "", filesize |-> 0, num_chunks |-> 0,
     filepath |-> NoPath, workers |-> <<>>, assignments |-> <<>>, start |-> 0, i |-> 0,
     collected |-> <<>>]

WorkerInit ==
    [pc |-> "idle", source |-> 0, start |-> 0, end |-> 0, filepath |-> NoPath, i |-> 0]

\* the TCP pair before the client is started: the server in accept, no connection
TcpIdle ==
    [client |-> [pc |-> "start", filename |-> "", file |-> <<>>, filesize |-> 0,
                 sent_bytes |-> 0, ack |-> <<>>, result |-> FALSE],
     server |-> [pc |-> "accept", filename_len |-> 0, filename |-> "", filesize |-> 0,
                 received_bytes |-> 0, save_filename |-> NoPath, acked |-> FALSE],
     up |-> <<>>, up_closed |-> FALSE,
     down |-> <<>>, down_closed |-> FALSE]

ClientInit ==
    [pc |-> "start", chunks |-> <<>>, num_chunks |-> 0, i |-> 0, method |-> "",
     call |-> Call(MASTER, 0), result |-> FALSE]

Init ==
    /\ impl \in {"ft", "sv"}
    /\ size \in 2..MaxSize
    /\ op \in {"send", "list", "shutdown"}
    /\ lenient \in BOOLEAN
    /\ file \in SourceFiles
    /\ net = {}
    /\ log = {}
    /\ fs = <<>>
    /\ master = MasterInit
    /\ worker = [r \in 2..(size - 1) |-> WorkerInit]
    /\ client = ClientInit
    /\ started \in (IF impl = "ft" /\ size > 2 THEN BOOLEAN ELSE {TRUE})
    /\ sync \in (IF op = "shutdown" THEN BOOLEAN ELSE {FALSE})
    /\ now = 0
    /\ saved = <<>>
    /\ active_transfers = <<>>
    /\ rpc = <<>>
    /\ tcp = TcpIdle

\* what no step of an MPI run changes
Config == <<impl, size, op, lenient, file, started, sync, now, saved, active_transfers, rpc,
            tcp>>

(* ===================== file_transfer.py: client ======================= *)
\* send_file up to the request: read the chunks, send the request with tag=ANY_TAG
ft_send_file ==
    /\ impl = "ft" /\ op = "send" /\ client.pc = "start"
    /\ LET chunks == read_chunks(file)
           request == Msg(CLIENT, MASTER, ANY_TAG,
                          [type |-> "send_file", filename |-> FileName,
                           filesize |-> Len(file), num_chunks |-> Len(chunks)])
       IN  \E ok \in Outcomes(request) : IF ok
           THEN /\ net' = net \cup {request}
                /\ log' = log \cup {request}
                /\ client' = [client EXCEPT !.call = Call(MASTER, ANY_TAG), !.pc = "wait_ready",
                                            !.chunks = chunks, !.num_chunks = Len(chunks)]
           ELSE /\ client' = [client EXCEPT !.call = Call(MASTER, ANY_TAG), !.pc = "raised",
                                            !.chunks = chunks, !.num_chunks = Len(chunks)]
                /\ UNCHANGED <<net, log>>
    /\ UNCHANGED <<Config, fs, master, worker>>

\* response = comm.recv(source=0, tag=20)
ft_client_ready ==
    /\ impl = "ft" /\ client.pc = "wait_ready"
    /\ \E m \in net :
        /\ Matches(m, CLIENT, MASTER, 20)
        /\ net' = net \ {m}
        /\ client' = [client EXCEPT !.pc = "sending", !.i = 0, !.method = m.body.method]
    /\ UNCHANGED <<Config, log, fs, master, worker>>

\* one iteration of: for i, chunk in enumerate(chunks): comm.send(chunk, dest=ANY_SOURCE, tag=100+i)
ft_client_chunk ==
    /\ impl = "ft" /\ client.pc = "sending" /\ client.i < client.num_chunks
    /\ LET m == Msg(CLIENT, ANY_SOURCE, 100 + client.i, [data |-> client.chunks[client.i + 1]])
       IN  \E ok \in Outcomes(m) : IF ok
           THEN /\ net' = net \cup {m}
                /\ log' = log \cup {m}
                /\ client' = [client EXCEPT !.call = Call(ANY_SOURCE, 100 + client.i), !.i = @ + 1]
           ELSE /\ client' = [client EXCEPT !.call = Call(ANY_SOURCE, 100 + client.i), !.pc = "raised"]
                /\ UNCHANGED <<net, log>>
    /\ UNCHANGED <<Config, fs, master, worker>>

\* completion = comm.recv(source=0, tag=21); return True when status is 'complete'
ft_client_complete ==
    /\ impl = "ft" /\ client.pc = "sending" /\ client.i = client.num_chunks
    /\ \E m \in net :
        /\ Matches(m, CLIENT, MASTER, 21)
        /\ net' = net \ {m}
        /\ client' = [client EXCEPT !.pc = "returned", !.result = (m.body.status = "complete")]
    /\ UNCHANGED <<Config, log, fs, master, worker>>

(* ===================== file_transfer.py: master ======================= *)
\* request = comm.recv(source=ANY_SOURCE, tag=ANY_TAG, status=status)
ft_master_process ==
    /\ impl = "ft" /\ master.pc = "wait"
    /\ \E m \in net :
        /\ Matches(m, MASTER, ANY_SOURCE, ANY_TAG)
        /\ net' = net \ {m}
        /\ master' = IF m.body.type = "send_file"
                     THEN [master EXCEPT !.pc = "handle", !.source = m.src,
                                         !.filename = m.body.filename,
                                         !.filesize = m.body.filesize,
                                         !.num_chunks = m.body.num_chunks]
                     ELSE [master EXCEPT !.pc = m.body.type, !.source = m.src, !.i = 0]
    /\ UNCHANGED <<Config, log, fs, worker, client>>

\* the source rank left in the worker list
ft_workers_with_source(source) == range_except(1, size, MASTER)
\* the policy of server.py: direct only when there is no worker
ft_direct_only_without_workers(workers, num_chunks) == workers = <<>>

\* the workers handle_file_transfer may use, and its choice of method
ft_workers(source) == range_except(1, size, source)
ft_direct(workers, num_chunks) == workers = <<>> \/ num_chunks < 2
ft_selected(workers, num_chunks) == SubSeq(workers, 1, Min(Len(workers), num_chunks))

\* handle_file_transfer up to the first blocking call of the chosen method
ft_handle_file_transfer ==
    /\ impl = "ft" /\ master.pc = "handle"
    /\ LET filepath == save_path(now, master.filename)
           workers == ft_workers(master.source)
           selected == ft_selected(workers, master.num_chunks)
       IN  IF ft_direct(workers, master.num_chunks)
           THEN LET ready == Msg(MASTER, master.source, 20,
                                 [status |-> "ready", method |-> "direct"])
                IN  /\ net' = net \cup {ready}
                    /\ log' = log \cup {ready}
                    /\ fs' = open_wb(fs, filepath)
                    /\ master' = [master EXCEPT !.pc = "direct", !.filepath = filepath,
                                                !.workers = <<>>, !.i = 0]
           ELSE LET ready == Msg(MASTER, master.source, 20,
                                 [status |-> "ready", method |-> "parallel",
                                  workers |-> selected, num_chunks |-> master.num_chunks])
                IN  /\ net' = net \cup {ready}
                    /\ log' = log \cup {ready}
                    /\ fs' = fs
                    /\ master' = [master EXCEPT !.pc = "dispatch", !.filepath = filepath,
                                                !.workers = selected, !.assignments = <<>>,
                                                !.start = 0, !.i = 0]
    /\ UNCHANGED <<Config, worker, client>>

\* one iteration of receive_file_direct: chunk = comm.recv(source, tag=100+i); f.write(chunk)
ft_receive_file_direct ==
    /\ impl = "ft" /\ master.pc = "direct" /\ master.i < master.num_chunks
    /\ \E m \in net :
        /\ Matches(m, MASTER, master.source, 100 + master.i)
        /\ net' = net \ {m}
        /\ fs' = write(fs, master.filepath, m.body.data)
        /\ master' = [master EXCEPT !.i = @ + 1]
    /\ UNCHANGED <<Config, log, worker, client>>

\* a slip: the receive loop of the direct branch is left before the last chunk
ft_direct_done_early ==
    /\ impl = "ft" /\ master.pc = "direct"
    /\ master' = [master EXCEPT !.pc = "ack"]
    /\ UNCHANGED <<Config, net, log, fs, worker, client>>

\* a slip: the direct branch goes back to the request loop without acknowledging
ft_direct_done_without_ack ==
    /\ impl = "ft" /\ master.pc = "direct" /\ master.i = master.num_chunks
    /\ master' = [master EXCEPT !.pc = "wait"]
    /\ UNCHANGED <<Config, net, log, fs, worker, client>>

\* receive_file_direct returns
ft_direct_done ==
    /\ impl = "ft" /\ master.pc = "direct" /\ master.i = master.num_chunks
    /\ master' = [master EXCEPT !.pc = "ack"]
    /\ UNCHANGED <<Config, net, log, fs, worker, client>>

\* one iteration of the dispatch loop of coordinate_parallel_transfer
ft_dispatch ==
    /\ impl = "ft" /\ master.pc = "dispatch" /\ master.i < Len(master.workers)
    /\ LET w == master.workers[master.i + 1]
           count == ft_count(master.num_chunks, Len(master.workers), master.i)
           end == master.start + count
           part == part_path(master.filepath, w)
           task == Msg(MASTER, w, 30,
                       [task |-> "receive", source |-> master.source,
                        start_chunk |-> master.start, end_chunk |-> end, filepath |-> part])
       IN  /\ net' = net \cup {task}
           /\ log' = log \cup {task}
           /\ master' = [master EXCEPT
                           !.assignments = Append(@, [worker |-> w, start |-> master.start,
                                                      end |-> end, part_file |-> part]),
                           !.start = end,
                           !.i = IF master.i + 1 = Len(master.workers) THEN 0 ELSE @ + 1,
                           !.pc = IF master.i + 1 = Len(master.workers) THEN "collect" ELSE @]
    /\ UNCHANGED <<Config, fs, worker, client>>

\* the collect loop going on without waiting for the worker's notice
ft_collect_without_waiting ==
    /\ impl = "ft" /\ master.pc = "collect" /\ master.i < Len(master.assignments)
    /\ master' = [master EXCEPT
                    !.collected = Append(@, master.assignments[master.i + 1].worker),
                    !.i = IF master.i + 1 = Len(master.assignments) THEN 0 ELSE @ + 1,
                    !.pc = IF master.i + 1 = Len(master.assignments) THEN "open" ELSE @]
    /\ UNCHANGED <<Config, net, log, fs, worker, client>>

\* a slip: a collect loop with a timeout, which goes on when no notice has arrived
ft_collect_with_timeout ==
    /\ impl = "ft" /\ master.pc = "collect" /\ master.i < Len(master.assignments)
    /\ LET a == master.assignments[master.i + 1]
           arrived == {m \in net : Matches(m, MASTER, a.worker, 31)}
       IN  /\ net' = net \ arrived
           /\ master' = [master EXCEPT
                            !.collected = IF arrived = {} THEN @ ELSE Append(@, a.worker),
                            !.i = IF master.i + 1 = Len(master.assignments) THEN 0 ELSE @ + 1,
                            !.pc = IF master.i + 1 = Len(master.assignments) THEN "open" ELSE @]
    /\ UNCHANGED <<Config, log, fs, worker, client>>

\* one iteration of the collect loop: comm.recv(source=worker, tag=31)
ft_collect ==
    /\ impl = "ft" /\ master.pc = "collect" /\ master.i < Len(master.assignments)
    /\ LET a == master.assignments[master.i + 1]
       IN  \E m \in net :
            /\ Matches(m, MASTER, a.worker, 31)
            /\ net' = net \ {m}
            /\ master' = [master EXCEPT
                            !.collected = Append(@, a.worker),
                            !.i = IF master.i + 1 = Len(master.assignments) THEN 0 ELSE @ + 1,
                            !.pc = IF master.i + 1 = Len(master.assignments) THEN "open" ELSE @]
    /\ UNCHANGED <<Config, log, fs, worker, client>>

\* with open(filepath, 'wb') as outfile
ft_open_final ==
    /\ impl = "ft" /\ master.pc = "open"
    /\ fs' = open_wb(fs, master.filepath)
    /\ master' = [master EXCEPT !.pc = "reassemble", !.i = 0]
    /\ UNCHANGED <<Config, net, log, worker, client>>

\* the assignments taken in descending order of start
RECURSIVE reverse(_)
reverse(seq) == IF seq = <<>> THEN <<>> ELSE reverse(Tail(seq)) \o <<Head(seq)>>
reassembly_order_descending(assignments) == reverse(sorted_by_start(assignments))

\* the order in which reassembly takes the assignments
reassembly_order(assignments) == sorted_by_start(assignments)

\* one iteration of the reassembly loop: append the part file, then os.remove it
ft_reassemble ==
    /\ impl = "ft" /\ master.pc = "reassemble" /\ master.i < Len(master.assignments)
    /\ LET a == reassembly_order(master.assignments)[master.i + 1]
       IN  /\ a.part_file \in DOMAIN fs
           /\ fs' = remove(write(fs, master.filepath, fs[a.part_file]), a.part_file)
           /\ master' = [master EXCEPT
                           !.i = @ + 1,
                           !.pc = IF master.i + 1 = Len(master.assignments) THEN "ack" ELSE @]
    /\ UNCHANGED <<Config, net, log, worker, client>>

\* an iteration of the reassembly loop that fails: open(part_file, 'rb'), read, write or
\* os.remove raises OSError, before or after the part was appended (a part file that is
\* missing raises at the open).  Nothing between
\* here and the top of master_process catches it: the exception ends rank 0
ft_reassemble_raises ==
    /\ impl = "ft" /\ master.pc = "reassemble" /\ master.i < Len(master.assignments)
    /\ LET a == reassembly_order(master.assignments)[master.i + 1]
       IN  \E appended \in (IF a.part_file \in DOMAIN fs THEN BOOLEAN ELSE {FALSE}) :
            fs' = IF appended THEN write(fs, master.filepath, fs[a.part_file]) ELSE fs
    /\ master' = [master EXCEPT !.pc = "raised"]
    /\ UNCHANGED <<Config, net, log, worker, client>>

\* comm.send({'status': 'complete'}, dest=source, tag=21), back to the request loop
ft_complete ==
    /\ impl = "ft" /\ master.pc = "ack"
    /\ LET m == Msg(MASTER, master.source, 21, [status |-> "complete"])
       IN  /\ net' = net \cup {m}
           /\ log' = log \cup {m}
    /\ master' = [master EXCEPT !.pc = "wait"]
    /\ UNCHANGED <<Config, fs, worker, client>>

\* list_files: comm.send({'type': 'list'}, dest=0, tag=ANY_TAG)
ft_list_files ==
    /\ impl = "ft" /\ op = "list" /\ client.pc = "start"
    /\ LET request == Msg(CLIENT, MASTER, ANY_TAG, [type |-> "list"])
       IN  \E ok \in Outcomes(request) : IF ok
           THEN /\ net' = net \cup {request}
                /\ log' = log \cup {request}
                /\ client' = [client EXCEPT !.call = Call(MASTER, ANY_TAG), !.pc = "wait_list"]
           ELSE /\ client' = [client EXCEPT !.call = Call(MASTER, ANY_TAG), !.pc = "raised"]
                /\ UNCHANGED <<net, log>>
    /\ UNCHANGED <<Config, fs, master, worker>>

\* response = comm.recv(source=0, tag=40)
ft_client_listed ==
    /\ impl = "ft" /\ client.pc = "wait_list"
    /\ \E m \in net :
        /\ Matches(m, CLIENT, MASTER, 40)
        /\ net' = net \ {m}
        /\ client' = [client EXCEPT !.pc = "returned", !.result = (m.body.status = "success")]
    /\ UNCHANGED <<Config, log, fs, master, worker>>

\* shutdown_server: comm.send({'type': 'shutdown'}, dest=0, tag=ANY_TAG)
ft_shutdown_server ==
    /\ impl = "ft" /\ op = "shutdown" /\ client.pc = "start"
    /\ LET request == Msg(CLIENT, MASTER, ANY_TAG, [type |-> "shutdown"])
       IN  \E ok \in Outcomes(request) : IF ok
           THEN /\ net' = net \cup {request}
                /\ log' = log \cup {request}
                /\ client' = [client EXCEPT !.call = Call(MASTER, ANY_TAG), !.pc = "returned"]
           ELSE /\ client' = [client EXCEPT !.call = Call(MASTER, ANY_TAG), !.pc = "raised"]
                /\ UNCHANGED <<net, log>>
    /\ UNCHANGED <<Config, fs, master, worker>>

\* the directory listing both masters send back
listing(dir) == {[filename |-> p, size |-> Len(dir[p])] : p \in DOMAIN dir}

\* handle_list_request
ft_handle_list_request ==
    /\ impl = "ft" /\ master.pc = "list"
    /\ LET m == Msg(MASTER, master.source, 40, [status |-> "success", files |-> listing(fs)])
       IN  /\ net' = net \cup {m}
           /\ log' = log \cup {m}
    /\ master' = [master EXCEPT !.pc = "wait"]
    /\ UNCHANGED <<Config, fs, worker, client>>

\* one iteration of broadcast_shutdown: for i in range(1, size): send({'task': 'shutdown'}, dest=i, tag=30)
\* and, once range(1, size) is used up, the end of master_process
ft_broadcast_shutdown ==
    /\ impl = "ft" /\ master.pc = "shutdown"
    /\ SendReturned(30)
    /\ LET i == master.i + 1
           m == Msg(MASTER, i, 30, [task |-> "shutdown"])
       IN  IF i < size
           THEN /\ net' = net \cup {m}
                /\ log' = log \cup {m}
                /\ master' = [master EXCEPT !.i = i]
           ELSE /\ master' = [master EXCEPT !.pc = "stopped"]
                /\ UNCHANGED <<net, log>>
    /\ UNCHANGED <<Config, fs, worker, client>>

(* ===================== file_transfer.py: worker ======================= *)
\* a slip: the loop is not left on a shutdown, the next notice is received as well
ft_worker_process_after_stop(r) ==
    /\ started /\ impl = "ft" /\ worker[r].pc \in {"idle", "stopped"}
    /\ \E m \in net :
        /\ Matches(m, r, MASTER, 30)
        /\ net' = net \ {m}
        /\ IF m.body.task = "shutdown"
           THEN /\ worker' = [worker EXCEPT ![r].pc = "stopped"]
                /\ fs' = fs
           ELSE /\ worker' = [worker EXCEPT ![r] =
                                [pc |-> "receiving", source |-> m.body.source,
                                 start |-> m.body.start_chunk, end |-> m.body.end_chunk,
                                 filepath |-> m.body.filepath, i |-> m.body.start_chunk]]
                /\ fs' = open_wb(fs, m.body.filepath)
    /\ UNCHANGED <<Config, log, master, client>>

\* msg = comm.recv(source=0, tag=30) and what follows up to the next receive
ft_worker_process(r) ==
    /\ started /\ impl = "ft" /\ worker[r].pc = "idle"
    /\ \E m \in net :
        /\ Matches(m, r, MASTER, 30)
        /\ net' = net \ {m}
        /\ IF m.body.task = "shutdown"
           THEN /\ worker' = [worker EXCEPT ![r].pc = "stopped"]
                /\ fs' = fs
           ELSE /\ worker' = [worker EXCEPT ![r] =
                                [pc |-> "receiving", source |-> m.body.source,
                                 start |-> m.body.start_chunk, end |-> m.body.end_chunk,
                                 filepath |-> m.body.filepath, i |-> m.body.start_chunk]]
                /\ fs' = open_wb(fs, m.body.filepath)
    /\ UNCHANGED <<Config, log, master, client>>

\* a slip: the chunk receive matches any tag, tag=MPI.ANY_TAG
ft_worker_chunk_any_tag(r) ==
    /\ started /\ impl = "ft" /\ worker[r].pc = "receiving" /\ worker[r].i < worker[r].end
    /\ \E m \in net :
        /\ Matches(m, r, worker[r].source, ANY_TAG)
        /\ net' = net \ {m}
        /\ fs' = write(fs, worker[r].filepath, m.body.data)
        /\ worker' = [worker EXCEPT ![r].i = @ + 1]
    /\ UNCHANGED <<Config, log, master, client>>

\* one iteration of: chunk = comm.recv(source=source, tag=100+i); f.write(chunk)
ft_worker_chunk(r) ==
    /\ started /\ impl = "ft" /\ worker[r].pc = "receiving" /\ worker[r].i < worker[r].end
    /\ \E m \in net :
        /\ Matches(m, r, worker[r].source, 100 + worker[r].i)
        /\ net' = net \ {m}
        /\ fs' = write(fs, worker[r].filepath, m.body.data)
        /\ worker' = [worker EXCEPT ![r].i = @ + 1]
    /\ UNCHANGED <<Config, log, master, client>>

\* a slip: the worker goes back to its receive without reporting
ft_worker_done_silent(r) ==
    /\ started /\ impl = "ft" /\ worker[r].pc = "receiving" /\ worker[r].i = worker[r].end
    /\ worker' = [worker EXCEPT ![r].pc = "idle"]
    /\ UNCHANGED <<Config, net, log, fs, master, client>>

\* the file is closed; comm.send({'status': 'done'}, dest=0, tag=31)
ft_worker_done(r) ==
    /\ started /\ impl = "ft" /\ worker[r].pc = "receiving" /\ worker[r].i = worker[r].end
    /\ LET m == Msg(r, MASTER, 31, [status |-> "done"])
       IN  /\ net' = net \cup {m}
           /\ log' = log \cup {m}
    /\ worker' = [worker EXCEPT ![r].pc = "idle"]
    /\ UNCHANGED <<Config, fs, master, client>>

(* ========================= client.py: client ========================== *)
\* send_file up to the request: read the chunks, comm.send(request, dest=0, tag=1)
sv_send_file ==
    /\ impl = "sv" /\ op = "send" /\ client.pc = "start"
    /\ LET chunks == read_chunks(file)
           request == Msg(CLIENT, MASTER, 1,
                          [type |-> "transfer", source_rank |-> CLIENT, filename |-> FileName,
                           filesize |-> Len(file), num_chunks |-> Len(chunks)])
       IN  /\ net' = net \cup {request}
           /\ log' = log \cup {request}
           /\ client' = [client EXCEPT !.call = Call(MASTER, 1), !.pc = "wait_ready",
                                       !.chunks = chunks, !.num_chunks = Len(chunks)]
    /\ UNCHANGED <<Config, fs, master, worker>>

\* response = comm.recv(source=0, tag=2)
sv_client_ready ==
    /\ impl = "sv" /\ client.pc = "wait_ready"
    /\ \E m \in net :
        /\ Matches(m, CLIENT, MASTER, 2)
        /\ net' = net \ {m}
        /\ client' = [client EXCEPT !.pc = "sending", !.i = 0]
    /\ UNCHANGED <<Config, log, fs, master, worker>>

\* one iteration of: comm.send({'data': chunk_data}, dest=ANY_SOURCE, tag=100+chunk_num)
sv_client_chunk ==
    /\ impl = "sv" /\ client.pc = "sending" /\ client.i < client.num_chunks
    /\ LET m == Msg(CLIENT, ANY_SOURCE, 100 + client.i, [data |-> client.chunks[client.i + 1]])
       IN  \E ok \in Outcomes(m) : IF ok
           THEN /\ net' = net \cup {m}
                /\ log' = log \cup {m}
                /\ client' = [client EXCEPT !.call = Call(ANY_SOURCE, 100 + client.i), !.i = @ + 1]
           ELSE /\ client' = [client EXCEPT !.call = Call(ANY_SOURCE, 100 + client.i), !.pc = "raised"]
                /\ UNCHANGED <<net, log>>
    /\ UNCHANGED <<Config, fs, master, worker>>

\* completion = comm.recv(source=0, tag=3); return True when status is 'complete'
sv_client_complete ==
    /\ impl = "sv" /\ client.pc = "sending" /\ client.i = client.num_chunks
    /\ \E m \in net :
        /\ Matches(m, CLIENT, MASTER, 3)
        /\ net' = net \ {m}
        /\ client' = [client EXCEPT !.pc = "returned", !.result = (m.body.status = "complete")]
    /\ UNCHANGED <<Config, log, fs, master, worker>>

\* list_files: comm.send(request, dest=0, tag=1)
sv_list_files ==
    /\ impl = "sv" /\ op = "list" /\ client.pc = "start"
    /\ LET request == Msg(CLIENT, MASTER, 1, [type |-> "list", source_rank |-> CLIENT])
       IN  /\ net' = net \cup {request}
           /\ log' = log \cup {request}
    /\ client' = [client EXCEPT !.call = Call(MASTER, 1), !.pc = "wait_list"]
    /\ UNCHANGED <<Config, fs, master, worker>>

\* response = comm.recv(source=0, tag=4)
sv_client_listed ==
    /\ impl = "sv" /\ client.pc = "wait_list"
    /\ \E m \in net :
        /\ Matches(m, CLIENT, MASTER, 4)
        /\ net' = net \ {m}
        /\ client' = [client EXCEPT !.pc = "returned", !.result = (m.body.status = "success")]
    /\ UNCHANGED <<Config, log, fs, master, worker>>

\* shutdown_server: comm.send(request, dest=0, tag=1)
sv_shutdown_server ==
    /\ impl = "sv" /\ op = "shutdown" /\ client.pc = "start"
    /\ LET request == Msg(CLIENT, MASTER, 1, [type |-> "shutdown", source_rank |-> CLIENT])
       IN  /\ net' = net \cup {request}
           /\ log' = log \cup {request}
    /\ client' = [client EXCEPT !.call = Call(MASTER, 1), !.pc = "returned"]
    /\ UNCHANGED <<Config, fs, master, worker>>

(* ========================= server.py: master ========================== *)
\* request = comm.recv(source=ANY_SOURCE, tag=1)
sv_master_process ==
    /\ impl = "sv" /\ master.pc = "wait"
    /\ \E m \in net :
        /\ Matches(m, MASTER, ANY_SOURCE, 1)
        /\ net' = net \ {m}
        /\ master' = IF m.body.type = "transfer"
                     THEN [master EXCEPT !.pc = "handle", !.source = m.body.source_rank,
                                         !.filename = m.body.filename,
                                         !.filesize = m.body.filesize,
                                         !.num_chunks = m.body.num_chunks]
                     ELSE [master EXCEPT !.pc = m.body.type, !.source = m.body.source_rank,
                                         !.i = 0]
    /\ UNCHANGED <<Config, log, fs, worker, client>>

\* available_workers = list(range(1, size)) without source_rank
sv_available_workers(source_rank) == range_except(1, size, source_rank)
sv_direct(available_workers) == available_workers = <<>>
sv_selected(available_workers, num_chunks) ==
    SubSeq(available_workers, 1, Min(Len(available_workers), num_chunks))

\* the 'transfer' branch up to its first blocking call: the ready reply, then the choice
\* of method; chunks_per_worker = num_chunks // num_workers raises when num_workers = 0
sv_transfer ==
    /\ impl = "sv" /\ master.pc = "handle"
    /\ LET filepath == save_path(now, master.filename)
           available_workers == sv_available_workers(master.source)
           workers == sv_selected(available_workers, master.num_chunks)
           ready == Msg(MASTER, master.source, 2, [status |-> "ready", filepath |-> filepath])
       IN  /\ net' = net \cup {ready}
           /\ log' = log \cup {ready}
           /\ IF sv_direct(available_workers)
              THEN /\ fs' = open_wb(fs, filepath)
                   /\ master' = [master EXCEPT !.pc = "direct", !.filepath = filepath,
                                               !.workers = <<>>, !.i = 0]
              ELSE /\ fs' = fs
                   /\ master' = [master EXCEPT
                                   !.pc = IF Len(workers) = 0 THEN "raised" ELSE "dispatch",
                                   !.filepath = filepath, !.workers = workers,
                                   !.assignments = <<>>, !.start = 0, !.i = 0]
    /\ UNCHANGED <<Config, worker, client>>

\* one iteration of receive_all_chunks: chunk_data = comm.recv(source_rank, tag=100+chunk_num)
sv_receive_all_chunks ==
    /\ impl = "sv" /\ master.pc = "direct" /\ master.i < master.num_chunks
    /\ \E m \in net :
        /\ Matches(m, MASTER, master.source, 100 + master.i)
        /\ net' = net \ {m}
        /\ fs' = write(fs, master.filepath, m.body.data)
        /\ master' = [master EXCEPT !.i = @ + 1]
    /\ UNCHANGED <<Config, log, worker, client>>

\* receive_all_chunks returns; the branch ends and the request loop goes on
sv_direct_done ==
    /\ impl = "sv" /\ master.pc = "direct" /\ master.i = master.num_chunks
    /\ master' = [master EXCEPT !.pc = "wait"]
    /\ UNCHANGED <<Config, net, log, fs, worker, client>>

\* one iteration of the assignment loop of master_process
sv_dispatch ==
    /\ impl = "sv" /\ master.pc = "dispatch" /\ master.i < Len(master.workers)
    /\ LET w == master.workers[master.i + 1]
           count == sv_count(master.num_chunks, Len(master.workers), master.i)
           end_chunk == master.start + count
           work_data == Msg(MASTER, w, 10,
                            [source_rank |-> master.source, start_chunk |-> master.start,
                             end_chunk |-> end_chunk, filepath |-> master.filepath])
       IN  /\ net' = net \cup {work_data}
           /\ log' = log \cup {work_data}
           /\ master' = [master EXCEPT
                           !.assignments = Append(@, [worker |-> w, start |-> master.start,
                                                      end |-> end_chunk]),
                           !.start = end_chunk,
                           !.i = IF master.i + 1 = Len(master.workers) THEN 0 ELSE @ + 1,
                           !.pc = IF master.i + 1 = Len(master.workers) THEN "collect" ELSE @]
    /\ UNCHANGED <<Config, fs, worker, client>>

\* a slip: the collect loop takes the notices as they come, source=MPI.ANY_SOURCE
sv_collect_any_source ==
    /\ impl = "sv" /\ master.pc = "collect" /\ master.i < Len(master.assignments)
    /\ \E m \in net :
        /\ Matches(m, MASTER, ANY_SOURCE, 11)
        /\ net' = net \ {m}
        /\ master' = [master EXCEPT
                        !.collected = Append(@, m.src),
                        !.i = IF master.i + 1 = Len(master.assignments) THEN 0 ELSE @ + 1,
                        !.pc = IF master.i + 1 = Len(master.assignments) THEN "ack" ELSE @]
    /\ UNCHANGED <<Config, log, fs, worker, client>>

\* one iteration of the collect loop: result = comm.recv(source=worker, tag=11)
sv_collect ==
    /\ impl = "sv" /\ master.pc = "collect" /\ master.i < Len(master.assignments)
    /\ LET a == master.assignments[master.i + 1]
       IN  \E m \in net :
            /\ Matches(m, MASTER, a.worker, 11)
            /\ net' = net \ {m}
            /\ master' = [master EXCEPT
                            !.collected = Append(@, a.worker),
                            !.i = IF master.i + 1 = Len(master.assignments) THEN 0 ELSE @ + 1,
                            !.pc = IF master.i + 1 = Len(master.assignments) THEN "ack" ELSE @]
    /\ UNCHANGED <<Config, log, fs, worker, client>>

\* comm.send({'status': 'complete'}, dest=source_rank, tag=3), back to the request loop
sv_complete ==
    /\ impl = "sv" /\ master.pc = "ack"
    /\ LET m == Msg(MASTER, master.source, 3, [status |-> "complete"])
       IN  /\ net' = net \cup {m}
           /\ log' = log \cup {m}
    /\ master' = [master EXCEPT !.pc = "wait"]
    /\ UNCHANGED <<Config, fs, worker, client>>

\* the 'list' branch: files = self.list_files(); send to source_rank with tag=4
sv_list ==
    /\ impl = "sv" /\ master.pc = "list"
    /\ LET m == Msg(MASTER, master.source, 4, [status |-> "success", files |-> listing(fs)])
       IN  /\ net' = net \cup {m}
           /\ log' = log \cup {m}
    /\ master' = [master EXCEPT !.pc = "wait"]
    /\ UNCHANGED <<Config, fs, worker, client>>

\* one iteration of the 'shutdown' branch: for i in range(1, size): send({'type': 'shutdown'}, dest=i, tag=10)
\* and, once range(1, size) is used up, the break out of master_process
sv_shutdown ==
    /\ impl = "sv" /\ master.pc = "shutdown"
    /\ SendReturned(10)
    /\ LET i == master.i + 1
           m == Msg(MASTER, i, 10, [type |-> "shutdown"])
       IN  IF i < size
           THEN /\ net' = net \cup {m}
                /\ log' = log \cup {m}
                /\ master' = [master EXCEPT !.i = i]
           ELSE /\ master' = [master EXCEPT !.pc = "stopped"]
                /\ UNCHANGED <<net, log>>
    /\ UNCHANGED <<Config, fs, worker, client>>

(* ========================= server.py: worker ========================== *)
\* work_data = comm.recv(source=0, tag=10) and what follows up to the next receive
sv_worker_process(r) ==
    /\ started /\ impl = "sv" /\ worker[r].pc = "idle"
    /\ \E m \in net :
        /\ Matches(m, r, MASTER, 10)
        /\ net' = net \ {m}
        /\ IF "type" \in DOMAIN m.body /\ m.body.type = "shutdown"
           THEN /\ worker' = [worker EXCEPT ![r].pc = "stopped"]
                /\ fs' = fs
           ELSE LET temp_file == part_path(m.body.filepath, r)
                IN  /\ worker' = [worker EXCEPT ![r] =
                                    [pc |-> "receiving", source |-> m.body.source_rank,
                                     start |-> m.body.start_chunk, end |-> m.body.end_chunk,
                                     filepath |-> temp_file, i |-> m.body.start_chunk]]
                    /\ fs' = open_wb(fs, temp_file)
    /\ UNCHANGED <<Config, log, master, client>>

\* one iteration of: chunk_data = comm.recv(source_rank, tag=100+chunk_num); f.write(chunk_data['data'])
sv_worker_chunk(r) ==
    /\ started /\ impl = "sv" /\ worker[r].pc = "receiving" /\ worker[r].i < worker[r].end
    /\ \E m \in net :
        /\ Matches(m, r, worker[r].source, 100 + worker[r].i)
        /\ net' = net \ {m}
        /\ fs' = write(fs, worker[r].filepath, m.body.data)
        /\ worker' = [worker EXCEPT ![r].i = @ + 1]
    /\ UNCHANGED <<Config, log, master, client>>

\* a slip: the notice is sent from inside the chunk loop, after any iteration
sv_worker_done_early(r) ==
    /\ started /\ impl = "sv" /\ worker[r].pc = "receiving" /\ worker[r].i > worker[r].start
    /\ LET m == Msg(r, MASTER, 11, [status |-> "done"])
       IN  /\ net' = net \cup {m}
           /\ log' = log \cup {m}
    /\ worker' = [worker EXCEPT ![r].pc = "idle"]
    /\ UNCHANGED <<Config, fs, master, client>>

\* the file is closed; comm.send({'status': 'done'}, dest=0, tag=11)
sv_worker_done(r) ==
    /\ started /\ impl = "sv" /\ worker[r].pc = "receiving" /\ worker[r].i = worker[r].end
    /\ LET m == Msg(r, MASTER, 11, [status |-> "done"])
       IN  /\ net' = net \cup {m}
           /\ log' = log \cup {m}
    /\ worker' = [worker EXCEPT ![r].pc = "idle"]
    /\ UNCHANGED <<Config, fs, master, client>>

(* ============================ specification =========================== *)
Next ==
    \/ ft_send_file
    \/ ft_client_ready
    \/ ft_client_chunk
    \/ ft_client_complete
    \/ ft_master_process
    \/ ft_handle_file_transfer
    \/ ft_receive_file_direct
    \/ ft_direct_done
    \/ ft_dispatch
    \/ ft_collect
    \/ ft_open_final
    \/ ft_reassemble
    \/ ft_reassemble_raises
    \/ ft_complete
    \/ ft_list_files
    \/ ft_client_listed
    \/ ft_shutdown_server
    \/ ft_handle_list_request
    \/ ft_broadcast_shutdown
    \/ \E r \in DOMAIN worker : ft_worker_process(r)
    \/ \E r \in DOMAIN worker : ft_worker_chunk(r)
    \/ \E r \in DOMAIN worker : ft_worker_done(r)
    \/ sv_send_file
    \/ sv_client_ready
    \/ sv_client_chunk
    \/ sv_client_complete
    \/ sv_list_files
    \/ sv_client_listed
    \/ sv_shutdown_server
    \/ sv_master_process
    \/ sv_transfer
    \/ sv_receive_all_chunks
    \/ sv_direct_done
    \/ sv_dispatch
    \/ sv_collect
    \/ sv_complete
    \/ sv_list
    \/ sv_shutdown
    \/ \E r \in DOMAIN worker : sv_worker_process(r)
    \/ \E r \in DOMAIN worker : sv_worker_chunk(r)
    \/ \E r \in DOMAIN worker : sv_worker_done(r)

Spec == Init /\ [][Next]_vars

(* ------------------------------ scheduling ---------------------------- *)
\* mpiexec starts every rank as a process of its own: the steps of rank 1
ClientNext ==
    \/ ft_send_file \/ ft_client_ready \/ ft_client_chunk \/ ft_client_complete
    \/ ft_list_files \/ ft_client_listed \/ ft_shutdown_server
    \/ sv_send_file \/ sv_client_ready \/ sv_client_chunk \/ sv_client_complete
    \/ sv_list_files \/ sv_client_listed \/ sv_shutdown_server

\* the steps of rank 0
MasterNext ==
    \/ ft_master_process \/ ft_handle_file_transfer \/ ft_receive_file_direct
    \/ ft_direct_done \/ ft_dispatch \/ ft_collect \/ ft_open_final \/ ft_reassemble
    \/ ft_reassemble_raises
    \/ ft_complete \/ ft_handle_list_request \/ ft_broadcast_shutdown
    \/ sv_master_process \/ sv_transfer \/ sv_receive_all_chunks \/ sv_direct_done
    \/ sv_dispatch \/ sv_collect \/ sv_complete \/ sv_list \/ sv_shutdown

\* the steps of rank r, r >= 2
WorkerNext(r) ==
    /\ r \in DOMAIN worker
    /\ \/ ft_worker_process(r) \/ ft_worker_chunk(r) \/ ft_worker_done(r)
       \/ sv_worker_process(r) \/ sv_worker_chunk(r) \/ sv_worker_done(r)

\* the same program under a fair scheduler and a reliable transport: a rank
\* whose next statement can run (its blocking receive has a matching message
\* in flight) eventually runs it
FairSpec ==
    /\ Spec
    /\ WF_vars(ClientNext)
    /\ WF_vars(MasterNext)
    /\ \A r \in 2..(MaxSize - 1) : WF_vars(WorkerNext(r))
(* --------------------------- a repeated notice ------------------------ *)
\* the shutdown notice of either master for rank r
ShutdownNotice(r) ==
    IF impl = "ft" THEN Msg(MASTER, r, 30, [task |-> "shutdown"])
    ELSE Msg(MASTER, r, 10, [type |-> "shutdown"])

\* the notice reaches rank r once more after r has stopped.  Neither master sends a
\* notice twice; this step is the hypothesis of the idempotence property, not a step
\* of the programs
deliver_again(r) ==
    /\ started /\ worker[r].pc = "stopped"
    /\ ShutdownNotice(r) \notin net
    /\ net' = net \cup {ShutdownNotice(r)}
    /\ UNCHANGED <<Config, log, fs, master, worker, client>>

RedeliveryNext ==
    \/ Next
    \/ \E r \in DOMAIN worker : deliver_again(r)

\* the programs with a transport that may deliver a shutdown notice a second time
RedeliverySpec == Init /\ [][RedeliveryNext]_vars

(* ------------------------------ a second run ------------------------- *)
\* the number of runs that store into the same upload directory
MaxRuns == 2

\* mpi_uploads outlives the run: after a transfer that was acknowledged, the programs
\* are started again on the same directory, in the same second or a later one, to send a
\* file of the same name
next_run ==
    /\ op = "send" /\ client.pc = "returned" /\ client.result
    /\ Len(saved) + 1 < MaxRuns
    /\ saved' = Append(saved, [path |-> master.filepath,
                               content |-> IF master.filepath \in DOMAIN fs
                                           THEN fs[master.filepath] ELSE <<>>])
    /\ now' \in {now, now + 1}
    /\ file' \in {file, Flat(1)}
    /\ net' = {} /\ log' = {}
    /\ master' = MasterInit
    /\ worker' = [r \in DOMAIN worker |-> WorkerInit]
    /\ client' = ClientInit
    /\ UNCHANGED <<impl, size, op, lenient, started, sync, fs, active_transfers, rpc, tcp>>

TwoRunsNext ==
    \/ Next
    \/ next_run

\* the programs run up to MaxRuns times on one upload directory
TwoRunsSpec == Init /\ [][TwoRunsNext]_vars

(* ====================== the RPC pair (XML-RPC) ======================== *)
\* SimpleXMLRPCServer serves one call at a time: a call of a client, the handler it
\* runs and the response are one step, and the calls of several clients interleave.
\* The MPI variables are at rest under this specification.

\* the clients that run send_file against the one server
MaxClients == 2
\* the seconds of the server's clock the model lets pass
MaxTime == 2
\* the largest file a client of the RPC pair sends
MaxRpcFileSize == 3

\* os.path.basename(filepath) of the files the clients send
RpcNames == {"a.bin", "b.bin"}
RpcFiles == {Ramp(n) : n \in 0..MaxRpcFileSize}

\* the '=' that pads the last group of a base64 text
PAD == 64

\* base64.b64encode(chunk): three bytes become four 6-bit digits, a last group of one
\* or two bytes becomes two or three digits and padding
RECURSIVE b64encode(_)
b64encode(bytes) ==
    IF bytes = <<>> THEN <<>>
    ELSE LET n == Min(3, Len(bytes))
             b(k) == IF k <= n THEN bytes[k] ELSE 0
             v == b(1) * 65536 + b(2) * 256 + b(3)
             digits == <<v \div 262144, (v \div 4096) % 64, (v \div 64) % 64, v % 64>>
         IN  [k \in 1..4 |-> IF k <= n + 1 THEN digits[k] ELSE PAD]
                 \o b64encode(SubSeq(bytes, 4, Len(bytes)))

\* base64.b64decode(chunk_data): four digits become three bytes, fewer for a padded group
RECURSIVE b64decode(_)
b64decode(chars) ==
    IF Len(chars) < 4 THEN <<>>
    ELSE LET d(k) == IF chars[k] = PAD THEN 0 ELSE chars[k]
             n == Cardinality({k \in 1..4 : chars[k] /= PAD}) - 1
             v == d(1) * 262144 + d(2) * 4096 + d(3) * 64 + d(4)
             bytes == <<v \div 65536, (v \div 256) % 256, v % 256>>
         IN  SubSeq(bytes, 1, n) \o b64decode(SubSeq(chars, 5, Len(chars)))

\* f"{filename}_{datetime.now().strftime('%Y%m%d_%H%M%S')}"
make_transfer_id(filename, timestamp) == [name |-> filename, ts |-> timestamp]
NoId == [name |-> "", ts |-> 0]

\* a file object opened with open(filepath, 'wb'): its position, whether close() was
\* called, and whether its file is still the one the path names (os.remove of the
\* path leaves an open handle writing to a file no path names)
NewHandle == [pos |-> 0, closed |-> FALSE, linked |-> TRUE]

\* handle.write(data): the bytes go to the handle's position, a gap left by a
\* truncation is filled with zero bytes
write_at(dir, path, handle, data) ==
    IF ~handle.linked \/ path \notin DOMAIN dir \/ data = <<>> THEN dir
    ELSE LET old == dir[path]
             end == handle.pos + Len(data)
             len == IF Len(old) > end THEN Len(old) ELSE end
         IN  [dir EXCEPT ![path] =
                 [k \in 1..len |-> IF k > handle.pos /\ k <= end THEN data[k - handle.pos]
                                   ELSE IF k <= Len(old) THEN old[k] ELSE 0]]

\* the state of the server after a handler, and the response it returns
Served(transfers, dir, response) ==
    [active_transfers |-> transfers, fs |-> dir, response |-> response]

Invalid == [status |-> "error", message |-> "Invalid transfer ID"]

\* start_transfer(filename, filesize): the identifier and the path are formatted from
\* two readings of the clock, id_time and path_time; open(filepath, 'wb') creates or
\* truncates the file and the entry is stored under the identifier, in the place of
\* an entry that was there
start_transfer(filename, filesize, id_time, path_time) ==
    LET transfer_id == make_transfer_id(filename, id_time)
        filepath == save_path(path_time, filename)
        entry == [filename |-> filename, filepath |-> filepath, filesize |-> filesize,
                  received |-> 0, file_handle |-> NewHandle]
    IN  Served([t \in DOMAIN active_transfers \cup {transfer_id} |->
                    IF t = transfer_id THEN entry ELSE active_transfers[t]],
               open_wb(fs, filepath),
               [status |-> "success", transfer_id |-> transfer_id])

\* upload_chunk(transfer_id, chunk_data, chunk_number): a write on a closed handle
\* raises before anything changes; the division by a filesize of 0 raises after the
\* bytes are written and counted
upload_chunk(transfer_id, chunk_data) ==
    IF transfer_id \notin DOMAIN active_transfers THEN Served(active_transfers, fs, Invalid)
    ELSE LET transfer == active_transfers[transfer_id]
             binary_data == b64decode(chunk_data)
             received == transfer.received + Len(binary_data)
         IN  IF transfer.file_handle.closed
             THEN Served(active_transfers, fs,
                         [status |-> "error", message |-> "I/O operation on closed file"])
             ELSE Served([active_transfers EXCEPT
                              ![transfer_id].received = received,
                              ![transfer_id].file_handle.pos = @ + Len(binary_data)],
                         write_at(fs, transfer.filepath, transfer.file_handle, binary_data),
                         IF transfer.filesize = 0
                         THEN [status |-> "error", message |-> "division by zero"]
                         ELSE [status |-> "success", received |-> received])

\* finish_transfer(transfer_id): closes the handle, then compares os.path.getsize
\* with the declared size; only the equal case deletes the entry
finish_transfer(transfer_id) ==
    IF transfer_id \notin DOMAIN active_transfers THEN Served(active_transfers, fs, Invalid)
    ELSE LET transfer == active_transfers[transfer_id]
             closed == [active_transfers EXCEPT ![transfer_id].file_handle.closed = TRUE]
         IN  IF transfer.filepath \notin DOMAIN fs
             THEN Served(closed, fs, [status |-> "error", message |-> "No such file"])
             ELSE IF Len(fs[transfer.filepath]) = transfer.filesize
             THEN Served([t \in DOMAIN active_transfers \ {transfer_id} |->
                              active_transfers[t]],
                         fs,
                         [status |-> "success", filepath |-> transfer.filepath,
                          size |-> Len(fs[transfer.filepath])])
             ELSE Served(closed, fs, [status |-> "warning", message |-> "Size mismatch"])

\* a slip: the entry is deleted and the file is left in uploads
cancel_transfer_keeps_file(transfer_id) ==
    IF transfer_id \notin DOMAIN active_transfers THEN Served(active_transfers, fs, Invalid)
    ELSE Served([t \in DOMAIN active_transfers \ {transfer_id} |-> active_transfers[t]],
                fs,
                [status |-> "success", message |-> "Transfer cancelled"])

\* cancel_transfer(transfer_id): closes the handle, removes the file if the path
\* exists, deletes the entry
cancel_transfer(transfer_id) ==
    IF transfer_id \notin DOMAIN active_transfers THEN Served(active_transfers, fs, Invalid)
    ELSE LET transfer == active_transfers[transfer_id]
         IN  Served([t \in DOMAIN active_transfers \ {transfer_id} |->
                         IF active_transfers[t].filepath = transfer.filepath
                         THEN [active_transfers[t] EXCEPT !.file_handle.linked = FALSE]
                         ELSE active_transfers[t]],
                    IF transfer.filepath \in DOMAIN fs THEN remove(fs, transfer.filepath)
                    ELSE fs,
                    [status |-> "success", message |-> "Transfer cancelled"])

\* a client before send_file: the file it was started with
RpcClientInit(filename, bytes) ==
    [pc |-> "start", filename |-> filename, file |-> bytes, transfer_id |-> NoId,
     chunk_number |-> 0, response |-> "", result |-> FALSE]

\* the MPI programs at rest
MpiAtRest ==
    /\ impl = "ft" /\ size = 2 /\ op = "send" /\ lenient = FALSE /\ file = <<>>
    /\ net = {} /\ log = {}
    /\ master = MasterInit
    /\ worker = [r \in 2..1 |-> WorkerInit]
    /\ client = ClientInit
    /\ started = TRUE /\ sync = FALSE /\ saved = <<>>

\* the server after __init__ (no transfer, an empty uploads directory) and the
\* clients after connect, each about to send one file
RpcInit ==
    /\ MpiAtRest
    /\ now = 0
    /\ fs = <<>>
    /\ active_transfers = <<>>
    /\ rpc \in [1..MaxClients -> {RpcClientInit(n, b) : n \in RpcNames, b \in RpcFiles}]
    /\ tcp = TcpIdle

RpcRest == <<impl, size, op, lenient, file, net, log, master, worker, client,
             started, sync, saved, tcp>>

\* send_file, lines 40-56: the size of the file, then the call of start_transfer;
\* the clock may pass a second between the two readings of the handler
rpc_start_transfer(c) ==
    /\ rpc[c].pc = "start"
    /\ \E path_time \in {now, Min(now + 1, MaxTime)} :
          LET served == start_transfer(rpc[c].filename, Len(rpc[c].file), now, path_time)
          IN  /\ now' = path_time
              /\ active_transfers' = served.active_transfers
              /\ fs' = served.fs
              /\ rpc' = [rpc EXCEPT ![c].pc = "upload",
                                    ![c].transfer_id = served.response.transfer_id,
                                    ![c].response = served.response.status]
    /\ UNCHANGED RpcRest

\* send_file, lines 64-82: the next chunk is read, encoded and uploaded; a response
\* other than success sends the client to cancel_transfer
rpc_upload_chunk(c) ==
    /\ rpc[c].pc = "upload"
    /\ rpc[c].chunk_number < Len(read_chunks(rpc[c].file))
    /\ LET chunk == read_chunks(rpc[c].file)[rpc[c].chunk_number + 1]
           served == upload_chunk(rpc[c].transfer_id, b64encode(chunk))
       IN  /\ active_transfers' = served.active_transfers
           /\ fs' = served.fs
           /\ rpc' = [rpc EXCEPT ![c].chunk_number = @ + 1,
                                 ![c].response = served.response.status,
                                 ![c].pc = IF served.response.status = "success"
                                           THEN "upload" ELSE "cancel"]
    /\ UNCHANGED <<RpcRest, now>>

\* send_file, lines 76-77: cancel_transfer, whatever it answers, and return False
rpc_cancel_transfer(c) ==
    /\ rpc[c].pc = "cancel"
    /\ LET served == cancel_transfer(rpc[c].transfer_id)
       IN  /\ active_transfers' = served.active_transfers
           /\ fs' = served.fs
           /\ rpc' = [rpc EXCEPT ![c].pc = "returned",
                                 ![c].response = served.response.status,
                                 ![c].result = FALSE]
    /\ UNCHANGED <<RpcRest, now>>

\* send_file, lines 92-101: after the last chunk finish_transfer is called; True is
\* returned for the status 'success' and False for any other
rpc_finish_transfer(c) ==
    /\ rpc[c].pc = "upload"
    /\ rpc[c].chunk_number = Len(read_chunks(rpc[c].file))
    /\ LET served == finish_transfer(rpc[c].transfer_id)
       IN  /\ active_transfers' = served.active_transfers
           /\ fs' = served.fs
           /\ rpc' = [rpc EXCEPT ![c].pc = "returned",
                                 ![c].response = served.response.status,
                                 ![c].result = (served.response.status = "success")]
    /\ UNCHANGED <<RpcRest, now>>

\* a second passes on the server's clock
tick ==
    /\ now < MaxTime
    /\ now' = now + 1
    /\ UNCHANGED <<RpcRest, fs, active_transfers, rpc>>

RpcNext ==
    \/ \E c \in DOMAIN rpc : rpc_start_transfer(c)
    \/ \E c \in DOMAIN rpc : rpc_upload_chunk(c)
    \/ \E c \in DOMAIN rpc : rpc_cancel_transfer(c)
    \/ \E c \in DOMAIN rpc : rpc_finish_transfer(c)
    \/ tick

\* the RPC server with MaxClients clients
RpcSpec == RpcInit /\ [][RpcNext]_vars

(* ========================== the TCP pair ============================== *)
\* One client connects to the server, which serves one connection at a time.  The
\* connection is two byte streams; sendall appends to a stream, recv takes from its
\* front, and close marks the end of the closer's stream.

\* self.buffer_size is 4096 in the programs; scaled down as chunk_size is
buffer_size == 2
\* the largest file the client of the TCP pair sends
MaxTcpFileSize == 3

\* os.path.basename(filepath) of the files the client sends
TcpNames == {"a", "bc"}
TcpFiles == {Ramp(n) : n \in 0..MaxTcpFileSize}

\* filename.encode('utf-8')
encode(filename) ==
    CASE filename = "a" -> <<97>>
      [] filename = "bc" -> <<98, 99>>
      [] OTHER -> <<>>

\* filename_data.decode('utf-8')
decode(bytes) == CHOOSE n \in TcpNames \cup {""} : encode(n) = bytes

\* n.to_bytes(width, byteorder='big')
RECURSIVE to_bytes(_, _)
to_bytes(n, width) ==
    IF width = 0 THEN <<>> ELSE Append(to_bytes(n \div 256, width - 1), n % 256)

\* int.from_bytes(bytes, byteorder='big')
RECURSIVE from_bytes(_)
from_bytes(bytes) ==
    IF bytes = <<>> THEN 0
    ELSE from_bytes(SubSeq(bytes, 1, Len(bytes) - 1)) * 256 + bytes[Len(bytes)]

\* b"ACK"
ACK == <<65, 67, 75>>

\* the client started with a file: send_file takes its name and os.path.getsize
TcpStart(filename, bytes) ==
    [TcpIdle EXCEPT !.client.filename = filename, !.client.file = bytes,
                    !.client.filesize = Len(bytes)]

\* the server listening and the client started on one file, nothing else running
TcpInit ==
    /\ MpiAtRest
    /\ now = 0
    /\ fs = <<>>
    /\ active_transfers = <<>>
    /\ rpc = <<>>
    /\ tcp \in {TcpStart(n, b) : n \in TcpNames, b \in TcpFiles}

TcpRest == <<impl, size, op, lenient, file, net, log, master, worker, client,
             started, sync, saved, now, active_transfers, rpc>>

\* client_socket.sendall(data)
sendall(data) == tcp.up \o data

\* recv_exact(conn, num_bytes) can return: the bytes are there, or the stream has ended
recv_ready(num_bytes) == Len(tcp.up) >= num_bytes \/ tcp.up_closed

\* recv_exact(conn, num_bytes): the bytes and what is left of the stream; None (no
\* bytes here) when the stream ends first, with what had arrived consumed
recv_exact(num_bytes) ==
    IF Len(tcp.up) >= num_bytes
    THEN [data |-> SubSeq(tcp.up, 1, num_bytes),
          rest |-> SubSeq(tcp.up, num_bytes + 1, Len(tcp.up))]
    ELSE [data |-> <<>>, rest |-> <<>>]

\* connect: client_socket.connect((host, port))
tcp_connect ==
    /\ tcp.client.pc = "start"
    /\ tcp' = [tcp EXCEPT !.client.pc = "filename_len"]
    /\ UNCHANGED <<TcpRest, fs>>

\* send_file: sendall(filename_len.to_bytes(4, byteorder='big'))
tcp_send_filename_len ==
    /\ tcp.client.pc = "filename_len"
    /\ tcp' = [tcp EXCEPT !.up = sendall(to_bytes(Len(encode(tcp.client.filename)), 4)),
                          !.client.pc = "filename"]
    /\ UNCHANGED <<TcpRest, fs>>

\* send_file: sendall(filename_bytes)
tcp_send_filename ==
    /\ tcp.client.pc = "filename"
    /\ tcp' = [tcp EXCEPT !.up = sendall(encode(tcp.client.filename)),
                          !.client.pc = "filesize"]
    /\ UNCHANGED <<TcpRest, fs>>

\* send_file: sendall(filesize.to_bytes(8, byteorder='big'))
tcp_send_filesize ==
    /\ tcp.client.pc = "filesize"
    /\ tcp' = [tcp EXCEPT !.up = sendall(to_bytes(tcp.client.filesize, 8)),
                          !.client.pc = "data"]
    /\ UNCHANGED <<TcpRest, fs>>

\* send_file, one iteration of the loop: f.read(self.buffer_size), sendall(chunk)
tcp_send_chunk ==
    /\ tcp.client.pc = "data"
    /\ tcp.client.sent_bytes < tcp.client.filesize
    /\ LET chunk == SubSeq(tcp.client.file, tcp.client.sent_bytes + 1,
                           Min(tcp.client.sent_bytes + buffer_size, Len(tcp.client.file)))
       IN  tcp' = [tcp EXCEPT !.up = sendall(chunk),
                              !.client.sent_bytes = @ + Len(chunk)]
    /\ UNCHANGED <<TcpRest, fs>>

\* send_file after the loop: ack = client_socket.recv(3) returns up to 3 of the bytes
\* that have arrived, or b'' at the end of the stream; True for b"ACK" only; disconnect
tcp_recv_ack ==
    /\ tcp.client.pc = "data"
    /\ tcp.client.sent_bytes >= tcp.client.filesize
    /\ tcp.down /= <<>> \/ tcp.down_closed
    /\ \E k \in (IF tcp.down = <<>> THEN {0} ELSE 1..Min(3, Len(tcp.down))) :
          LET ack == SubSeq(tcp.down, 1, k)
          IN  tcp' = [tcp EXCEPT !.down = SubSeq(tcp.down, k + 1, Len(tcp.down)),
                                 !.client.ack = ack,
                                 !.client.result = (ack = ACK),
                                 !.client.pc = "returned",
                                 !.up_closed = TRUE]
    /\ UNCHANGED <<TcpRest, fs>>

\* send_file: a sendall or a read raises while the client is sending (or the client is
\* interrupted): except returns False, finally disconnects
tcp_send_file_raises ==
    /\ tcp.client.pc \in {"filename_len", "filename", "filesize", "data"}
    /\ tcp.client.pc = "data" => tcp.client.sent_bytes < tcp.client.filesize
    /\ tcp' = [tcp EXCEPT !.client.result = FALSE,
                          !.client.pc = "returned",
                          !.up_closed = TRUE]
    /\ UNCHANGED <<TcpRest, fs>>

\* accept_connections: conn, addr = self.server_socket.accept()
tcp_accept ==
    /\ tcp.server.pc = "accept"
    /\ tcp.client.pc /= "start"
    /\ tcp' = [tcp EXCEPT !.server.pc = "filename_len"]
    /\ UNCHANGED <<TcpRest, fs>>

\* receive_file: filename_len_data = recv_exact(conn, 4); nothing received closes
tcp_recv_filename_len ==
    /\ tcp.server.pc = "filename_len"
    /\ recv_ready(4)
    /\ LET got == recv_exact(4)
       IN  tcp' = IF got.data = <<>>
                  THEN [tcp EXCEPT !.up = got.rest, !.server.pc = "closed",
                                   !.down_closed = TRUE]
                  ELSE [tcp EXCEPT !.up = got.rest, !.server.pc = "filename",
                                   !.server.filename_len = from_bytes(got.data)]
    /\ UNCHANGED <<TcpRest, fs>>

\* receive_file: filename_data = recv_exact(conn, filename_len), decoded
tcp_recv_filename ==
    /\ tcp.server.pc = "filename"
    /\ recv_ready(tcp.server.filename_len)
    /\ LET got == recv_exact(tcp.server.filename_len)
       IN  tcp' = IF got.data = <<>>
                  THEN [tcp EXCEPT !.up = got.rest, !.server.pc = "closed",
                                   !.down_closed = TRUE]
                  ELSE [tcp EXCEPT !.up = got.rest, !.server.pc = "filesize",
                                   !.server.filename = decode(got.data)]
    /\ UNCHANGED <<TcpRest, fs>>

\* receive_file: filesize_data = recv_exact(conn, 8), then the timestamp, the name of
\* the saved file and open(save_filename, 'wb')
tcp_recv_filesize ==
    /\ tcp.server.pc = "filesize"
    /\ recv_ready(8)
    /\ LET got == recv_exact(8)
           save_filename == save_path(now, tcp.server.filename)
       IN  IF got.data = <<>>
           THEN /\ tcp' = [tcp EXCEPT !.up = got.rest, !.server.pc = "closed",
                                      !.down_closed = TRUE]
                /\ fs' = fs
           ELSE /\ tcp' = [tcp EXCEPT !.up = got.rest, !.server.pc = "data",
                                      !.server.filesize = from_bytes(got.data),
                                      !.server.save_filename = save_filename]
                /\ fs' = open_wb(fs, save_filename)
    /\ UNCHANGED TcpRest

\* receive_file, one iteration of the loop: conn.recv(min(buffer_size, remaining))
\* returns some of the bytes that have arrived, which are written and counted, or b''
\* at the end of the stream, which leaves the loop
tcp_recv_chunk ==
    /\ tcp.server.pc = "data"
    /\ tcp.server.received_bytes < tcp.server.filesize
    /\ tcp.up /= <<>> \/ tcp.up_closed
    /\ LET remaining == tcp.server.filesize - tcp.server.received_bytes
           chunk_size_ == Min(buffer_size, remaining)
       IN  \E k \in (IF tcp.up = <<>> THEN {0} ELSE 1..Min(chunk_size_, Len(tcp.up))) :
             IF k = 0
             THEN /\ tcp' = [tcp EXCEPT !.server.pc = "ack"]
                  /\ fs' = fs
             ELSE /\ tcp' = [tcp EXCEPT !.up = SubSeq(tcp.up, k + 1, Len(tcp.up)),
                                        !.server.received_bytes = @ + k]
                  /\ fs' = write(fs, tcp.server.save_filename, SubSeq(tcp.up, 1, k))
    /\ UNCHANGED TcpRest

\* the loop of receive_file is over: all the bytes counted, or the break
after_loop ==
    \/ tcp.server.pc = "ack"
    \/ tcp.server.pc = "data" /\ tcp.server.received_bytes >= tcp.server.filesize

\* receive_file after the loop: conn.sendall(b"ACK"), then finally conn.close(); towards
\* a client that has closed, the sendall may still return or may raise
tcp_send_ack ==
    /\ after_loop
    /\ \E sent \in (IF tcp.up_closed THEN BOOLEAN ELSE {TRUE}) :
          tcp' = [tcp EXCEPT !.down = IF sent THEN @ \o ACK ELSE @,
                             !.server.acked = sent,
                             !.server.pc = "closed",
                             !.down_closed = TRUE]
    /\ UNCHANGED <<TcpRest, fs>>

TcpNext ==
    \/ tcp_connect
    \/ tcp_send_filename_len
    \/ tcp_send_filename
    \/ tcp_send_filesize
    \/ tcp_send_chunk
    \/ tcp_recv_ack
    \/ tcp_send_file_raises
    \/ tcp_accept
    \/ tcp_recv_filename_len
    \/ tcp_recv_filename
    \/ tcp_recv_filesize
    \/ tcp_recv_chunk
    \/ tcp_send_ack

\* the TCP server with one client
TcpSpec == TcpInit /\ [][TcpNext]_vars

(* ================================ claims ============================== *)
\* the ranks other than the master and the source, as a set
Available == {r \in 1..(size - 1) : r /= master.source}
\* the master has sent every assignment of the current transfer
Dispatched == master.assignments /= <<>> /\ Len(master.assignments) = Len(master.workers)
\* the assignment messages sent so far (ft: task 'receive' on tag 30; sv: work_data on tag 10)
Tasks == {m \in log : /\ m.src = MASTER
                      /\ \/ impl = "ft" /\ m.tag = 30 /\ m.body.task = "receive"
                         \/ impl = "sv" /\ m.tag = 10 /\ "start_chunk" \in DOMAIN m.body}
\* the completion acknowledgments sent so far
Completes == {m \in log : m.src = MASTER /\ m.tag = (IF impl = "ft" THEN 21 ELSE 3)}
\* the readiness responses sent so far
Readies == {m \in log : m.src = MASTER /\ m.tag = (IF impl = "ft" THEN 20 ELSE 2)}

\* C1: the assignments built by either master partition [0, num_chunks) exactly: the
\* first range starts at 0, each range starts where the previous one ends, ranges are
\* non-empty and in ascending start order in the order of the worker list, and once the
\* last one is dispatched it ends at num_chunks and every chunk index lies in exactly
\* one range.
C1_Partition ==
    LET a == master.assignments
    IN  /\ Len(a) <= Len(master.workers)
        /\ \A k \in 1..Len(a) :
            /\ a[k].worker = master.workers[k]
            /\ a[k].start = (IF k = 1 THEN 0 ELSE a[k - 1].end)
            /\ a[k].start < a[k].end
            /\ \A j \in 1..Len(a) : j < k => a[j].start < a[k].start /\ a[j].end <= a[k].start
        /\ Dispatched =>
            /\ a[Len(a)].end = master.num_chunks
            /\ \A c \in 0..(master.num_chunks - 1) :
                Cardinality({k \in 1..Len(a) : a[k].start <= c /\ c < a[k].end}) = 1

\* both masters have dispatched three ranges of unequal length over five chunks
C1_Witness ==
    /\ Dispatched /\ Len(master.assignments) = 3 /\ master.num_chunks = 5

\* C2: per-worker chunk counts differ by at most 1; exactly num_chunks mod num_workers
\* workers receive base+1 chunks, base = num_chunks div num_workers, and they are the
\* first ones in selection order; all the others receive exactly base chunks.
C2_Balanced ==
    LET a == master.assignments
        n == Len(master.workers)
        count(k) == a[k].end - a[k].start
    IN  Len(a) > 0 =>
          LET base == master.num_chunks \div n
              remainder == master.num_chunks % n
          IN  /\ \A k \in 1..Len(a) : count(k) = (IF k <= remainder THEN base + 1 ELSE base)
              /\ \A j, k \in 1..Len(a) : count(j) - count(k) <= 1
              /\ Dispatched =>
                   Cardinality({k \in 1..Len(a) : count(k) = base + 1}) = remainder

\* five chunks over three workers: two workers hold two chunks, the last holds one
C2_Witness ==
    /\ Dispatched /\ Len(master.assignments) = 3 /\ master.num_chunks = 5
    /\ master.assignments[2].end - master.assignments[2].start = 2
    /\ master.assignments[3].end - master.assignments[3].start = 1

\* C3: handle_file_transfer of file_transfer.py chooses Direct (the master opens the
\* final file and receives the chunks itself, no assignment is dispatched) exactly when
\* no rank other than the master and the source exists or num_chunks < 2, and Parallel
\* in every other case.
C3_DirectIff ==
    impl = "ft" =>
      \A ready \in Readies :
        LET direct == Available = {} \/ master.num_chunks < 2
        IN  /\ ready.body.method = (IF direct THEN "direct" ELSE "parallel")
            /\ direct => /\ Tasks = {}
                         /\ master.assignments = <<>>
                         /\ master.pc \in {"direct", "ack", "wait"}
                         /\ master.filepath \in DOMAIN fs
                         /\ \A r \in DOMAIN worker : worker[r].pc = "idle"
            /\ ~direct => /\ master.pc \in {"dispatch", "collect", "open", "reassemble",
                                            "raised", "ack", "wait"}
                          /\ master.pc /= "dispatch" => Tasks /= {}

\* one chunk and two available workers: the master has received the file directly
C3_Witness ==
    /\ impl = "ft" /\ size = 4 /\ master.num_chunks = 1
    /\ Readies /= {} /\ master.pc = "ack" /\ fs[master.filepath] = file

\* C4: in Parallel mode the master selects exactly min(#available, num_chunks) workers,
\* the lowest-numbered available ranks in ascending order; neither the source nor rank 0
\* is ever sent an assignment, and every assignment holds at least one chunk.
C4_Selection ==
    /\ master.pc \in {"dispatch", "collect", "open", "reassemble"} =>
        /\ Len(master.workers) = Min(Cardinality(Available), master.num_chunks)
        /\ \A k \in 1..Len(master.workers) :
            /\ master.workers[k] \in Available
            /\ Cardinality({r \in Available : r < master.workers[k]}) = k - 1
    /\ \A t \in Tasks :
        /\ t.dst \notin {MASTER, master.source}
        /\ \E k \in 1..Len(master.workers) : master.workers[k] = t.dst
        /\ t.body.start_chunk < t.body.end_chunk

\* five ranks and two chunks: two of the three available workers are selected
C4_Witness ==
    /\ size = 5 /\ master.num_chunks = 2 /\ Dispatched
    /\ master.workers = <<2, 3>> /\ Cardinality(Tasks) = 2

\* C5: when the master of file_transfer.py has sent the completion acknowledgment, the
\* final file exists and holds exactly the bytes of the source file.
C5_RoundTrip ==
    impl = "ft" /\ Completes /= {} =>
        /\ save_path(now, FileName) \in DOMAIN fs
        /\ fs[save_path(now, FileName)] = file

\* a file of at least three chunks went through two or more workers and was acknowledged
C5_Witness ==
    /\ impl = "ft" /\ Completes /= {} /\ Len(master.assignments) >= 2
    /\ Len(file) > 2 * chunk_size /\ file = Ramp(Len(file))
\* the master chose Parallel for the current transfer
ParallelMode == master.workers /= <<>>
\* the chunk messages the client has sent
ChunkMsgs == {m \in log : m.src = CLIENT /\ m.tag >= 100}

\* C6: in Parallel mode the Sender addresses every chunk i to one concrete endpoint, the
\* worker whose assigned range contains i; no chunk is sent to a wildcard destination.
C6_ExplicitDestination ==
    ParallelMode =>
      /\ \A m \in ChunkMsgs :
          /\ m.dst /= ANY_SOURCE
          /\ \A k \in 1..Len(master.assignments) :
              LET a == master.assignments[k]
              IN  a.start <= m.tag - 100 /\ m.tag - 100 < a.end => m.dst = a.worker
      /\ client.call.tag >= 100 => client.call.dest /= ANY_SOURCE

\* C7: the readiness response of Parallel mode carries, for every selected worker, its
\* (worker, start, end) triple, identical to the ranges dispatched to the workers.
C7_ReadyCarriesRanges ==
    ParallelMode =>
      \A ready \in Readies :
        /\ "worker_ranges" \in DOMAIN ready.body
        /\ Dispatched =>
            ready.body.worker_ranges =
                [k \in 1..Len(master.assignments) |->
                    <<master.assignments[k].worker, master.assignments[k].start,
                      master.assignments[k].end>>]

\* C8: whenever the readiness response of a Parallel transfer has been sent, every
\* assignment of that transfer has been dispatched and taken by its worker.
C8_ReadyAfterDispatch ==
    ParallelMode /\ Readies /= {} =>
        /\ Dispatched
        /\ \A t \in Tasks : t \notin net

\* C9: when the master of file_transfer.py has sent the completion acknowledgment, every
\* worker given an assignment has sent its completion notice, the master has taken it,
\* and reassembly is over: the final file exists and the master is out of the loop.
C9_AckAfterCollect ==
    impl = "ft" /\ Completes /= {} =>
        /\ \A k \in 1..Len(master.assignments) :
            LET w == master.assignments[k].worker
            IN  /\ \E d \in log : d.src = w /\ d.dst = MASTER /\ d.tag = 31
                /\ \A d \in net : ~(d.src = w /\ d.tag = 31)
                /\ worker[w].pc = "idle"
                /\ \E j \in 1..Len(master.collected) : master.collected[j] = w
        /\ master.filepath \in DOMAIN fs
        /\ master.pc = "wait"

\* three workers were assigned ranges and the acknowledgment has been sent
C9_Witness ==
    /\ impl = "ft" /\ Completes /= {} /\ Len(master.assignments) = 3
    /\ master.collected = <<2, 3, 4>>

\* the final file followed by the part files that still exist, in selection order
Rebuilt ==
    fs[master.filepath]
        \o Concat([k \in 1..Len(master.assignments) |->
                    IF master.assignments[k].part_file \in DOMAIN fs
                    THEN fs[master.assignments[k].part_file] ELSE <<>>])

\* one step of reassembly: the part file with the lowest start among those left is
\* appended in full to the final file and deleted, nothing else changes on disk
C10_Step ==
    impl = "ft" /\ master.pc = "reassemble" /\ master' /= master /\ master'.pc /= "raised" =>
        /\ \E k \in 1..Len(master.assignments) :
            LET a == master.assignments[k]
            IN  /\ a.part_file \in DOMAIN fs
                /\ DOMAIN fs' = DOMAIN fs \ {a.part_file}
                /\ fs'[master.filepath] = fs[master.filepath] \o fs[a.part_file]
                /\ \A j \in 1..Len(master.assignments) :
                    LET b == master.assignments[j]
                    IN  /\ b.start < a.start => b.part_file \notin DOMAIN fs
                        /\ b.start > a.start => /\ b.part_file \in DOMAIN fs'
                                                /\ fs'[b.part_file] = fs[b.part_file]
        /\ Rebuilt' = Rebuilt

\* no part file is left once the acknowledgment is sent
C10_NoPartAtAck ==
    impl = "ft" /\ Completes /= {} => \A p \in DOMAIN fs : p.part = 0

\* C10: reassembly consumes the part files in ascending start order, appending each in
\* full to the final file and then deleting it, so that the final file is
\* partial(w_1) ++ partial(w_2) ++ ... in selection order, and no part file exists any
\* more when the completion acknowledgment is sent.
C10_Reassembly == [][C10_Step]_vars /\ [](C10_NoPartAtAck)

\* a reassembly of two part files of different lengths has been acknowledged
C10_Witness ==
    /\ impl = "ft" /\ Completes /= {} /\ Len(master.assignments) = 2
    /\ master.num_chunks = 3 /\ DOMAIN fs = {master.filepath}
    /\ Len(fs[master.filepath]) = Len(file)

\* C11: in server.py a Parallel transfer ends with a single final file at the path
\* announced to the Sender, holding the concatenation of the workers' part files in
\* ascending start order, and no part file is left when 'complete' is sent.
C11_SingleFinalFile ==
    impl = "sv" /\ ParallelMode /\ Completes /= {} =>
        /\ \A m \in Readies : m.body.filepath \in DOMAIN fs
        /\ Len(fs[master.filepath]) = Len(file)
        /\ \A p \in DOMAIN fs : p.part = 0

\* the Sender of file_transfer.py has sent a transfer request announcing zero chunks
ZeroChunkRequest ==
    /\ impl = "ft"
    /\ \E m \in log : /\ m.src = CLIENT /\ "num_chunks" \in DOMAIN m.body
                      /\ m.body.num_chunks = 0

\* while such a request is served nothing is dispatched, no chunk travels, no worker
\* leaves its receive for an assignment, and the only file ever created is the final
\* file, which is empty
C12_Direct ==
    ZeroChunkRequest =>
        /\ Tasks = {} /\ ChunkMsgs = {}
        /\ master.i = 0 /\ master.assignments = <<>>
        /\ \A r \in DOMAIN worker : worker[r].pc = "idle"
        /\ \A m \in Readies : m.body.method = "direct"
        /\ Readies /= {} => DOMAIN fs = {master.filepath} /\ fs[master.filepath] = <<>>
        /\ Readies = {} => DOMAIN fs = {}

\* send_file has returned True and the empty final file is on disk
C12_Acknowledged ==
    /\ client.pc = "returned" /\ client.result
    /\ Completes /= {}
    /\ DOMAIN fs = {master.filepath} /\ fs[master.filepath] = <<>>

\* C12: a request with num_chunks = 0 is handled in Direct mode by file_transfer.py
\* whatever the number of workers: no assignment is dispatched, no chunk is received,
\* an empty final file is created, and the Sender receives the completion
\* acknowledgment.
C12_ZeroChunks == [](C12_Direct) /\ (ZeroChunkRequest ~> C12_Acknowledged)

\* an empty file has been transferred and acknowledged with three idle workers around
C12_Witness ==
    /\ ZeroChunkRequest /\ size = 5 /\ Len(ft_workers(master.source)) = 3
    /\ C12_Acknowledged

\* the master of server.py has taken up a transfer request announcing fewer than 2 chunks
SmallRequestServed ==
    /\ impl = "sv" /\ Readies /= {} /\ master.num_chunks < 2

\* C13: in server.py a request with num_chunks < 2 is received directly by the master
\* even when workers are available: for num_chunks 0 and 1 with at least one available
\* worker no assignment is dispatched and the master does not fail (no division by
\* zero).
C13_SmallDirect ==
    SmallRequestServed /\ sv_available_workers(master.source) /= <<>> =>
        /\ Tasks = {}
        /\ master.workers = <<>>
        /\ master.pc /= "raised"

\* what the master sends a worker, by program: tag 30 / tag 10, a shutdown notice or an
\* assignment; and the completion notice of worker r
IsTask(m, r) == m.src = MASTER /\ m.dst = r /\ m.tag = (IF impl = "ft" THEN 30 ELSE 10)
IsShutdown(m) ==
    IF impl = "ft" THEN m.body.task = "shutdown"
    ELSE "type" \in DOMAIN m.body /\ m.body.type = "shutdown"
IsDone(m, r) == m.src = r /\ m.dst = MASTER /\ m.tag = (IF impl = "ft" THEN 31 ELSE 11)

\* one step, seen from worker r: Idle -> ReceivingRange only by taking an assignment,
\* ReceivingRange -> Idle only by sending the completion notice, Idle -> Stopped only by
\* taking a shutdown notice, and nothing at all once Stopped
C14_Step(r) ==
    LET p == worker[r].pc
        q == worker'[r].pc
        taken == {m \in net \ net' : IsTask(m, r)}
        sent == {m \in net' \ net : m.src = r}
    IN  CASE p = "idle" /\ q = "idle" -> worker'[r] = worker[r] /\ taken = {} /\ sent = {}
          [] p = "idle" /\ q = "receiving" ->
                /\ \E m \in taken : ~IsShutdown(m)
                /\ sent = {}
          [] p = "receiving" /\ q = "receiving" -> taken = {} /\ sent = {}
          [] p = "receiving" /\ q = "idle" ->
                /\ \E m \in sent : IsDone(m, r)
                /\ taken = {}
          [] p = "idle" /\ q = "stopped" ->
                /\ \E m \in taken : IsShutdown(m)
                /\ sent = {}
          [] p = "stopped" /\ q = "stopped" ->
                /\ worker'[r] = worker[r]
                /\ taken = {} /\ sent = {}
                /\ \A f \in DOMAIN fs \cup DOMAIN fs' :
                     f.part = r => f \in DOMAIN fs /\ f \in DOMAIN fs' /\ fs'[f] = fs[f]
          [] OTHER -> FALSE

\* C14: a worker follows Idle -> ReceivingRange -> Idle; it enters ReceivingRange only
\* on receiving an assignment while Idle, returns to Idle only after sending its
\* completion notice, reaches Stopped only by receiving an explicit shutdown while Idle,
\* and once Stopped never accepts an assignment, receives a chunk, writes a file or
\* sends a message.
C14_WorkerLifecycle == [][\A r \in DOMAIN worker : C14_Step(r)]_vars

\* after a shutdown request the master has stopped and so have three workers
C14_Witness ==
    /\ op = "shutdown" /\ master.pc = "stopped" /\ size = 5
    /\ \A r \in DOMAIN worker : worker[r].pc = "stopped"

\* the bytes of chunks lo .. hi-1 of the source file, in order
ChunkRange(lo, hi) == Concat(SubSeq(read_chunks(file), lo + 1, hi))

\* worker r has sent its completion notice
Done(r) == \E m \in log : IsDone(m, r)

\* C15: a worker assigned [start, end) receives the chunk indices in strictly increasing
\* order start, start+1, ..., end-1, each from the declared source on tag 100+i, and
\* appends each to its part file: while it receives, the part file holds exactly chunks
\* start .. i-1, and when it sends its completion notice the part file holds exactly the
\* chunks start .. end-1 in order, each once, none from outside the range.
C15_PartContent ==
    \A r \in DOMAIN worker :
        LET w == worker[r]
        IN  /\ w.pc = "receiving" =>
                /\ w.source = master.source
                /\ w.start <= w.i /\ w.i <= w.end
                /\ w.filepath \in DOMAIN fs
                /\ fs[w.filepath] = ChunkRange(w.start, w.i)
                /\ \A c \in w.start..(w.i - 1) :
                     \E m \in log \ net : m.src = w.source /\ m.tag = 100 + c
            /\ Done(r) /\ w.filepath \in DOMAIN fs =>
                fs[w.filepath] = ChunkRange(w.start, w.end)

\* a worker holding the middle range [2, 4) of five chunks has reported, and its part
\* file is still on disk
C15_Witness ==
    \E r \in DOMAIN worker :
        /\ Done(r) /\ worker[r].start = 2 /\ worker[r].end = 4
        /\ worker[r].filepath \in DOMAIN fs
        /\ Len(fs[worker[r].filepath]) = 4

\* a step puts a completion notice of worker r in flight exactly when r leaves its chunk
\* loop, and then r has written its last chunk and the closed part file is complete and
\* stays as it is
C16_Step(r) ==
    LET w == worker[r]
        notices == {m \in net' \ net : IsDone(m, r)}
    IN  /\ notices /= {} <=> (w.pc = "receiving" /\ worker'[r].pc = "idle")
        /\ notices /= {} =>
            /\ Cardinality(notices) = 1
            /\ w.i = w.end
            /\ fs[w.filepath] = ChunkRange(w.start, w.end)
            /\ fs'[w.filepath] = fs[w.filepath]

\* a worker that has reported is out of its chunk loop with every chunk of its range
\* written, and a worker that is back from an assignment has reported
C16_Reported ==
    \A r \in DOMAIN worker :
        /\ Done(r) => worker[r].pc = "idle" /\ worker[r].i = worker[r].end
        /\ worker[r].pc = "idle" /\ worker[r].end > worker[r].start => Done(r)

\* C16: a worker sends its completion notice only after the last chunk of its range is
\* written and the part file closed, and sends exactly one notice per assignment.
C16_NoticeAfterLastChunk ==
    [][\A r \in DOMAIN worker : C16_Step(r)]_vars /\ [](C16_Reported)

\* the worker of server.py holding two of three chunks has reported, the other has not
C16_Witness ==
    /\ impl = "sv" /\ master.num_chunks = 3 /\ Len(master.workers) = 2
    /\ Done(2) /\ worker[2].end - worker[2].start = 2
    /\ ~Done(3) /\ worker[3].pc = "receiving"

\* every assigned worker has sent its completion notice
AllReported ==
    /\ ParallelMode /\ Dispatched
    /\ \A k \in 1..Len(master.assignments) : Done(master.assignments[k].worker)

\* the collect loop is over with every notice taken
Collected ==
    /\ Len(master.collected) = Len(master.assignments)
    /\ master.pc \notin {"dispatch", "collect"}
    /\ \A m \in net : m.dst /= MASTER

\* the notices observed so far are those of the first workers in dispatch order, each
\* one sent before it was observed
C17_DispatchOrder ==
    /\ Len(master.collected) <= Len(master.assignments)
    /\ \A k \in 1..Len(master.collected) :
        /\ master.collected[k] = master.assignments[k].worker
        /\ Done(master.collected[k])

\* C17: collecting in dispatch order does not require the workers to finish in that
\* order: in whatever order the assigned workers send their completion notices, the
\* collect loop receives all of them and terminates, and the master observes them in
\* dispatch order.
C17_Collect == [](C17_DispatchOrder) /\ (AllReported ~> Collected)

\* the master waits for the first worker while the notices of the second and the third
\* are already in flight
C17_Witness ==
    /\ master.pc = "collect" /\ master.collected = <<>> /\ Len(master.assignments) = 3
    /\ ~Done(2) /\ worker[2].pc = "receiving"
    /\ \E m \in net : IsDone(m, 3)
    /\ \E m \in net : IsDone(m, 4)

\* the part files that a step creates, extends, truncates or deletes
Touched == {p \in DOMAIN fs \cup DOMAIN fs' :
              /\ p.part /= 0
              /\ p \notin DOMAIN fs \/ p \notin DOMAIN fs' \/ fs'[p] /= fs[p]}

\* a part file is created or written only by a step of the one worker it belongs to,
\* and it is deleted only by the master once that worker's notice has been collected
\* and the worker is out of its chunk loop
C18_Step ==
    \A p \in Touched :
        /\ p.part \in DOMAIN worker
        /\ IF p \in DOMAIN fs'
           THEN /\ worker'[p.part] /= worker[p.part]
                /\ worker'[p.part].pc = "receiving"
                /\ worker'[p.part].filepath = p
                /\ \A r \in DOMAIN worker \ {p.part} : worker'[r] = worker[r]
                /\ master' = master
           ELSE /\ master.pc = "reassemble" /\ master' /= master
                /\ \E k \in 1..Len(master.collected) : master.collected[k] = p.part
                /\ worker[p.part].pc = "idle" /\ worker' = worker

\* the assignments name pairwise distinct part files, a worker in its chunk loop writes
\* the part file that carries its own rank, and while the master of file_transfer.py
\* reads and deletes part files every assigned worker has reported and none is writing
C18_Exclusive ==
    /\ \A r \in DOMAIN worker :
        worker[r].pc = "receiving" =>
            /\ worker[r].filepath = part_path(master.filepath, r)
            /\ \A q \in DOMAIN worker \ {r} :
                 worker[q].pc = "receiving" => worker[q].filepath /= worker[r].filepath
    /\ impl = "ft" =>
        /\ \A j, k \in 1..Len(master.assignments) :
             j /= k => master.assignments[j].part_file /= master.assignments[k].part_file
        /\ master.pc \in {"open", "reassemble"} =>
             \A k \in 1..Len(master.assignments) :
                /\ master.collected[k] = master.assignments[k].worker
                /\ worker[master.assignments[k].worker].pc = "idle"

\* C18: each part file is written by exactly one worker (distinct workers have distinct
\* part paths), and the master reads and deletes a part file only after it has received
\* that worker's completion notice: in no state is a worker still writing a part file
\* that the master reads or deletes.
C18_PartOwnership == [][C18_Step]_vars /\ [](C18_Exclusive)

\* the master of file_transfer.py has deleted the first of three part files
C18_Witness ==
    /\ impl = "ft" /\ master.pc = "reassemble" /\ master.i = 1
    /\ Len(master.assignments) = 3
    /\ master.assignments[1].part_file \notin DOMAIN fs
    /\ master.assignments[2].part_file \in DOMAIN fs

\* C19: the completion acknowledgment sent to the Sender carries the final path and the
\* final size of the stored file.
C19_AckCarriesPathAndSize ==
    \A m \in Completes :
        /\ "final_path" \in DOMAIN m.body /\ "final_size" \in DOMAIN m.body
        /\ m.body.final_path = master.filepath
        /\ m.body.final_size = Len(file)

\* send_file of file_transfer.py has issued its transfer request
TransferRequested ==
    /\ impl = "ft" /\ op = "send" /\ client.pc /= "start"
    /\ client.call.dest = MASTER

\* send_file has returned True
Returned == client.pc = "returned" /\ client.result

\* C20: with one master, one Sender and every other rank in the worker loop, under fair
\* scheduling and a reliable transport, every transfer request made by the Sender of
\* file_transfer.py leads to the Sender receiving the completion acknowledgment
\* (send_file returns True); no transfer is left hanging, in Direct or Parallel mode.
C20_EventuallyAcknowledged == TransferRequested ~> Returned

\* the client of client.py has sent every chunk of a transfer that the master of
\* server.py receives itself, and blocks for the completion acknowledgment
AllChunksSentDirect ==
    /\ impl = "sv" /\ op = "send"
    /\ Readies /= {} /\ sv_direct(sv_available_workers(master.source))
    /\ client.pc = "sending" /\ client.i = client.num_chunks

\* C21: with server.py and client.py, when no worker is available and the master
\* receives the file itself, the Sender, blocked for the completion acknowledgment after
\* sending all chunks, eventually receives it and send_file returns True.
C21_DirectAcknowledged == AllChunksSentDirect ~> Returned

\* a worker holds an assignment of the current transfer and has not sent its notice
Unreported ==
    \E k \in 1..Len(master.assignments) : ~Done(master.assignments[k].worker)

\* as long as an assigned worker has not reported, the master is in its dispatch or
\* collect loop: nothing is acknowledged, the final file is not opened, nothing is
\* reassembled, and the master is not back at its request receive
C22_Blocked ==
    Unreported =>
        /\ master.pc \in {"dispatch", "collect"}
        /\ Completes = {}
        /\ master.filepath \notin DOMAIN fs

\* and no step taken meanwhile deletes a file
C22_Step == Unreported => DOMAIN fs \subseteq DOMAIN fs'

\* C22: if a worker that holds an assignment never sends its completion notice, the
\* master stays blocked in collect for ever: it never sends the completion
\* acknowledgment for that transfer, never reassembles or deletes a part file, and never
\* accepts another request.
C22_CollectBlocks == [](C22_Blocked) /\ [][C22_Step]_vars

\* the run has come to a halt with the master in its collect loop: the first worker has
\* reported and its part file is on disk, the second waits for a chunk that will not
\* come because the client's send has raised
C22_Witness ==
    /\ master.pc = "collect" /\ client.pc = "raised"
    /\ Len(master.assignments) = 2 /\ Done(2) /\ ~Done(3)
    /\ worker[3].pc = "receiving"
    /\ part_path(master.filepath, 2) \in DOMAIN fs
    /\ ~ENABLED Next

\* the messages the master has sent to the Sender that report a failure
ErrorReports ==
    {m \in log : /\ m.src = MASTER /\ m.dst = master.source
                 /\ "status" \in DOMAIN m.body /\ m.body.status \notin {"ready", "complete"}}

\* C23: if a step of reassembly fails, the master deletes all remaining part files of the
\* transfer and reports an error to the Sender; it never sends 'complete' for, and never
\* leaves behind, a partial or corrupt final file.
C23_FailureCleansUp ==
    impl = "ft" /\ master.pc = "raised" =>
        /\ \A p \in DOMAIN fs : p.part = 0
        /\ master.filepath \notin DOMAIN fs
        /\ ErrorReports /= {}
        /\ Completes = {}

\* a step taken while a notice is pending for the stopped worker r leaves the notice in
\* flight and r as it is; r sends nothing and no file carrying its rank changes
C24_Step(r) ==
    worker[r].pc = "stopped" /\ ShutdownNotice(r) \in net =>
        /\ ShutdownNotice(r) \in net'
        /\ worker'[r] = worker[r]
        /\ \A m \in net' \ net : m.src /= r
        /\ \A f \in DOMAIN fs \cup DOMAIN fs' :
             f.part = r => f \in DOMAIN fs /\ f \in DOMAIN fs' /\ fs'[f] = fs[f]

\* after a shutdown, once the master and every worker have stopped, notices delivered
\* again set nothing in motion
C24_Quiet ==
    /\ master.pc = "stopped"
    /\ \A r \in DOMAIN worker : worker[r].pc = "stopped"
    /\ \E r \in DOMAIN worker : ShutdownNotice(r) \in net
    => ~ENABLED Next

\* C24: a second shutdown notice delivered to a worker that is already stopped has no
\* observable effect: the worker stays stopped, writes no file and emits no message,
\* and the rest of the system state is unchanged.
C24_Idempotent == [][\A r \in DOMAIN worker : C24_Step(r)]_vars /\ [](C24_Quiet)

\* both workers of a run of four ranks have stopped and the notice has reached each of
\* them a second time
C24_Witness ==
    /\ size = 4 /\ master.pc = "stopped"
    /\ \A r \in DOMAIN worker : worker[r].pc = "stopped" /\ ShutdownNotice(r) \in net

\* C25: two distinct transfers never share a final path: whatever the time between the
\* two requests, two transfers of the same original filename are saved to different
\* paths, and the second never overwrites the file of the first.
C25_DistinctFinalPaths ==
    \A k \in 1..Len(saved) :
        /\ master.filepath /= saved[k].path
        /\ saved[k].path \in DOMAIN fs => fs[saved[k].path] = saved[k].content

\* the master has received a shutdown request, the shutdown notices are sent
\* synchronously, and every rank from 2 on runs the worker loop
ShutdownUnderRendezvous ==
    /\ op = "shutdown" /\ sync /\ started
    /\ master.pc \in {"shutdown", "stopped"}

\* the request loop of the master has ended and every worker has stopped
AllStopped ==
    /\ master.pc = "stopped"
    /\ \A r \in DOMAIN worker : worker[r].pc = "stopped"

\* C27: after the master receives a shutdown request it sends a shutdown notice to every
\* worker and its own request loop terminates; under synchronous (rendezvous) sends and
\* fair scheduling every worker eventually stops and the master eventually terminates,
\* even though the broadcast also addresses the rank that sent the request, which runs
\* no worker loop.
C27_ShutdownCompletes == ShutdownUnderRendezvous ~> AllStopped

\* file_transfer.py was started in file-sending mode by main() on every rank, and the
\* master has dispatched an assignment
DispatchedUnderMain ==
    /\ impl = "ft" /\ op = "send" /\ ~started
    /\ Tasks /= {}

\* every assignment sent has been received by its worker, which any completion of the
\* transfer presupposes
AssignmentsReceived == Tasks \cap net = {}

\* C28: when file_transfer.py is launched in file-sending mode with N >= 3 processes,
\* every rank the master selects as a worker (2..N-1) is executing worker_process, so
\* every assignment dispatched is eventually received by a worker and a file of two or
\* more chunks is transferred in Parallel mode to completion.
C28_WorkersRun == DispatchedUnderMain ~> AssignmentsReceived

\* a request as send_file, list_files and shutdown_server build it
IsRequest(m) ==
    /\ "type" \in DOMAIN m.body
    /\ m.body.type \in {"send_file", "list", "shutdown"}

\* what the wildcard receive at the top of master_process could take in this state
Receivable == {m \in net : Matches(m, MASTER, ANY_SOURCE, ANY_TAG)}

\* while the master of file_transfer.py is at its wildcard receive, every message it
\* could take is a request: no chunk and no completion notice is in flight towards it
C29_AtReceive ==
    impl = "ft" /\ master.pc = "wait" =>
        \A m \in Receivable : IsRequest(m) /\ m.tag < 100 /\ m.tag /= 31

\* and the message a step of that receive takes is a request
C29_Step ==
    impl = "ft" /\ master.pc = "wait" /\ master' /= master =>
        \E m \in net \ net' : IsRequest(m) /\ master'.source = m.src

\* C29: every message consumed by the wildcard receive (any source, any tag) in the main
\* loop of master_process of file_transfer.py is a request (send_file, list or shutdown):
\* in no interleaving does that receive consume a chunk or a worker's completion notice
\* of a current or earlier transfer.
C29_OnlyRequests == [](C29_AtReceive) /\ [][C29_Step]_vars

\* the master is back at its wildcard receive after a Parallel transfer in which two
\* workers received chunks and reported
C29_Witness ==
    /\ impl = "ft" /\ master.pc = "wait" /\ Completes /= {}
    /\ Len(master.collected) = 2 /\ Cardinality(ChunkMsgs) = 3
    /\ \A k \in 1..2 : Done(master.collected[k])

(* ------------------------------- C26 ---------------------------------- *)
\* the step in which finish_transfer of client c answers with the warning
MismatchWarned(c) ==
    /\ rpc[c].pc = "upload" /\ rpc'[c].pc = "returned"
    /\ rpc'[c].response = "warning"

\* C26: a mismatch between the declared size and the size received is a non-fatal
\* warning and the transfer still counts as delivered: when finish_transfer finds
\* actual size /= declared filesize, the saved file is kept as it is and send_file of
\* the Sender does not report the transfer as failed (it returns True).
C26_Step ==
    \A c \in DOMAIN rpc :
        MismatchWarned(c) =>
            /\ rpc[c].transfer_id \in DOMAIN active_transfers
            /\ active_transfers[rpc[c].transfer_id].filepath \in DOMAIN fs'
            /\ fs' = fs
            /\ rpc'[c].result

C26_MismatchIsWarning == [][C26_Step]_vars

(* ------------------------------- C30 ---------------------------------- *)
\* the step in which start_transfer is served for client c
Starts(c) == rpc[c].pc = "start" /\ rpc'[c].pc = "upload"

\* C30: start_transfer never returns a transfer_id that is in active_transfers at the
\* call and never opens a path that another active transfer has opened: the entries of
\* the other transfers are left as they were and their files are not truncated, so two
\* calls for the same filename give two independent sessions.
C30_Step ==
    \A c \in DOMAIN rpc :
        Starts(c) =>
            LET transfer_id == rpc'[c].transfer_id
            IN  /\ transfer_id \notin DOMAIN active_transfers
                /\ \A t \in DOMAIN active_transfers :
                       /\ t \in DOMAIN active_transfers'
                       /\ active_transfers'[t] = active_transfers[t]
                       /\ active_transfers[t].filepath /= active_transfers'[transfer_id].filepath
                       /\ active_transfers[t].filepath \in DOMAIN fs =>
                              fs'[active_transfers[t].filepath] = fs[active_transfers[t].filepath]

C30_IndependentSessions == [][C30_Step]_vars

(* ------------------------------- C31 ---------------------------------- *)
\* C31: every entry of active_transfers has an open file handle: once finish_transfer
\* or cancel_transfer has closed the handle of a transfer, with whatever outcome
\* (success, size-mismatch warning, cancel), its transfer_id is no longer in
\* active_transfers, so that every later call on it is answered 'Invalid transfer ID'.
C31_EntriesOpen ==
    \A t \in DOMAIN active_transfers : ~active_transfers[t].file_handle.closed

(* ------------------------------- C32 ---------------------------------- *)
\* the step in which upload_chunk is served for client c
Uploads(c) == rpc[c].pc = "upload" /\ rpc'[c].chunk_number = rpc[c].chunk_number + 1

\* the bytes of the file of transfer t, none when no path names it
Written(t) ==
    IF active_transfers[t].filepath \in DOMAIN fs THEN fs[active_transfers[t].filepath]
    ELSE <<>>

C32_Step ==
    \A c \in DOMAIN rpc :
        Uploads(c) =>
            LET t == rpc[c].transfer_id
                chunk == read_chunks(rpc[c].file)[rpc[c].chunk_number + 1]
            IN  IF rpc'[c].response = "success"
                THEN /\ active_transfers'[t].received = active_transfers[t].received + Len(chunk)
                     /\ fs'[active_transfers[t].filepath] = Written(t) \o chunk
                ELSE /\ active_transfers' = active_transfers
                     /\ fs' = fs

C32_Received ==
    \A t \in DOMAIN active_transfers : active_transfers[t].received = Len(Written(t))

\* C32, the whole claim: an upload_chunk call answered 'error' leaves the server as it was (no byte
\* appended, 'received' not increased) and one answered 'success' appends exactly the
\* bytes of the chunk and adds their number to 'received', so that 'received' is always
\* the number of bytes written to the file of the transfer, for every declared filesize,
\* 0 included.
C32_ChunkAccounting == [](C32_Received) /\ [][C32_Step]_vars

\* C32, the half about 'error': an upload_chunk call that is answered with a status
\* other than 'success' has appended no byte and has not increased 'received', for
\* every declared filesize, 0 included.
C32_ErrorChangesNothing ==
    [][\A c \in DOMAIN rpc :
          Uploads(c) /\ rpc'[c].response /= "success" =>
              active_transfers' = active_transfers /\ fs' = fs]_vars

(* ------------------------------- C33 ---------------------------------- *)
\* the step in which cancel_transfer is served for client c
Cancels(c) == rpc[c].pc = "cancel" /\ rpc'[c].pc = "returned"

\* the step in which finish_transfer is served for client c
Finishes(c) == rpc[c].pc = "upload" /\ rpc'[c].pc = "returned"

C33_Step ==
    \A c \in DOMAIN rpc :
        LET t == rpc[c].transfer_id
        IN  /\ Uploads(c) /\ rpc'[c].response /= "success" =>
                rpc'[c].pc = "cancel" /\ rpc'[c].transfer_id = t
            /\ Cancels(c) /\ rpc'[c].response = "success" =>
                /\ t \in DOMAIN active_transfers
                /\ t \notin DOMAIN active_transfers'
                /\ active_transfers[t].filepath \notin DOMAIN fs'
            /\ (Uploads(c) \/ Finishes(c) \/ Cancels(c)) /\ t \notin DOMAIN active_transfers =>
                /\ rpc'[c].response = "error"
                /\ active_transfers' = active_transfers
                /\ fs' = fs

\* a client whose upload has failed is at the call of cancel_transfer, and nowhere else
C33_AtCancel ==
    \A c \in DOMAIN rpc :
        rpc[c].pc = "cancel" => rpc[c].response /= "success" /\ ENABLED rpc_cancel_transfer(c)

\* C33: when a chunk upload fails the client cancels the transfer; after a
\* cancel_transfer that succeeds the server holds neither an entry of active_transfers
\* nor a file for that transfer; upload_chunk, finish_transfer and cancel_transfer
\* called with a transfer_id that is not active answer with an error and change
\* neither active_transfers nor any file.
C33_CancelCleansUp == [](C33_AtCancel) /\ [][C33_Step]_vars

\* one client has cancelled with success after a failed upload and nothing of its
\* transfer is left; the other, on the same identifier, was answered with an error
C33_Witness ==
    \E c, d \in DOMAIN rpc :
        /\ c /= d /\ rpc[c].transfer_id = rpc[d].transfer_id
        /\ rpc[c].pc = "returned" /\ ~rpc[c].result /\ rpc[c].response = "success"
        /\ rpc[c].chunk_number > 0
        /\ rpc[d].pc = "returned" /\ rpc[d].response = "error"
        /\ active_transfers = <<>> /\ fs = <<>>

(* ------------------------------- C34 ---------------------------------- *)
\* the server has received and written exactly the declared number of bytes
AllWritten ==
    /\ tcp.server.received_bytes = tcp.server.filesize
    /\ tcp.server.save_filename \in DOMAIN fs
    /\ Len(fs[tcp.server.save_filename]) = tcp.server.filesize

\* C34: the TCP server sends 'ACK' on a connection only when it has received and
\* written exactly the declared filesize bytes of file data; when the connection of
\* the client ends before filesize bytes have arrived, no ACK is sent and send_file of
\* the client does not report success.
C34_AckOnlyWhenComplete ==
    /\ tcp.server.acked => AllWritten
    /\ tcp.client.result => AllWritten

\* the half about the client alone: send_file returns True only for a complete file
C34_SuccessOnlyWhenComplete == tcp.client.result => AllWritten
====
